---- MODULE Spec2Model ----
(***************************************************************************)
(* wsl-screenshot-cli: the capture engine (internal/poller) and the daemon *)
(* lifecycle manager (internal/daemon) as state machines.                  *)
(*                                                                         *)
(*   SpecPoller : one poller.Run with its session factory, ticker,         *)
(*                cancellation context and output directory.               *)
(*   SpecDaemon : several processes of the program running daemon.Run,     *)
(*                daemon.Daemonize, daemon.Stop and daemon.Status against  *)
(*                the shared PID marker and state marker.                  *)
(***************************************************************************)
EXTENDS Integers, Sequences, FiniteSets, TLC

(***************************************************************************)
(* Bounds of the model                                                     *)
(***************************************************************************)
\* number of distinct clipboard images Check can report
NumImages == 2
\* how many sessions the factory can produce before it only fails
MaxSessions == 2
\* number of processes of the program (their PIDs are 1..NumProcs)
NumProcs == 2

(***************************************************************************)
(* Program constants                                                       *)
(***************************************************************************)
maxConsecutiveErrors == 5

(***************************************************************************)
(* Files                                                                   *)
(***************************************************************************)
\* a path of the file system: absent, or a file with its content
NoFile == [there |-> FALSE, data |-> <<>>]

File(d) == [there |-> TRUE, data |-> d]

\* the proper prefixes of data: what a write that fails part-way leaves
Truncations(data) == { SubSeq(data, 1, n) : n \in 0..(Len(data) - 1) }

\* os.WriteFile(name, data, 0644): the file is created or truncated and
\* written; it can fail before the file is opened (content unchanged) or
\* part-way (a proper prefix of the data is left).
WriteFile(old, data) ==
    {[err |-> FALSE, opened |-> TRUE, content |-> File(data)]}
        \cup {[err |-> TRUE, opened |-> FALSE, content |-> old]}
        \cup {[err |-> TRUE, opened |-> TRUE, content |-> File(t)] : t \in Truncations(data)}

(***************************************************************************)
(* Images, fingerprints and file names                                     *)
(***************************************************************************)
\* the image bytes Check can report
Image(i) == << i >>

Images == { Image(i) : i \in 1..NumImages }

HexDigit(n) == <<"0","1","2","3","4","5","6","7","8","9","a","b","c","d","e","f">>[n + 1]

\* fmt.Sprintf("%x", h) of a one-byte digest: two lowercase hex characters
Hex(n) == << HexDigit(n \div 16), HexDigit(n % 16) >>

\* Stand-in for sha256.Sum256: a one-byte rolling digest, deterministic and
\* free of collisions over the modelled images (as SHA-256 is taken to be).
RECURSIVE Sum256(_)
Sum256(data) ==
    IF data = <<>> THEN 7
    ELSE (Sum256(SubSeq(data, 1, Len(data) - 1)) * 31 + data[Len(data)]) % 256

\* a fingerprint that does not depend on the bytes
hashBytes_ignore(data) == Hex(Sum256(<<>>))

\* h := sha256.Sum256(data); return fmt.Sprintf("%x", h)
hashBytes(data) == Hex(Sum256(data))

\* filename := hash + ".png"
FileName(data) == hashBytes(data) \o <<".", "p", "n", "g">>

FileNames == { FileName(b) : b \in Images }

\* os.Stat(filePath) returned no error
Exists(fs, name) == fs[name].there

(***************************************************************************)
(* Sessions                                                                *)
(***************************************************************************)
NilClient == 0

Sessions == 1..MaxSessions

NoTrip == [armed |-> FALSE, old |-> NilClient, closes |-> 0, calls |-> 0,
           sentTo |-> NilClient, newest |-> 0]

NoCancel == [at |-> "none", client |-> NilClient]

VARIABLES
    \* ---- poller.Run ----
    pc,                 \* position of Run
    client,             \* the variable `client` of Run
    factoryCalls,       \* successful calls of newClient so far (session ids)
    closeCount,         \* closeCount[s]: how often Close was called on session s
    consecutiveErrors,  \* the variable `consecutiveErrors` of Run
    cancelled,          \* ctx.Done() is closed
    tickPending,        \* a tick is waiting in ticker.C
    files,              \* the output directory: file name -> file or NoFile
    pngData,            \* the bytes Check returned to the poll in progress
    pollErr,            \* whether the poll in progress returns an error
    retval,             \* the value Run is returning while its defers run
    result,             \* how Run ended: "none", "nil", "error", "panic"
    updateCalls,        \* updateCalls[b]: UpdateClipboard calls for image b
    \* ---- observations of the run ----
    polled,             \* polled[b]: polls that got image b (2: two or more)
    rewritten,          \* rewritten[n]: WriteFile was applied to existing file n
    checkStreak,        \* Check failures since the last Check success or replacement
    trip,               \* what happened since the streak reached the threshold
    tripAtCheck,        \* the value of trip when the next Check was sent
    outcome,            \* how the poll in progress went
    cancelAt,           \* where Run was when the context was cancelled
    factoryFailed,      \* "none", "start" or "restart"
    pollStreak,         \* polls that failed since the last successful poll or replacement
    peerExited,         \* the external process of the session in `client` has exited
    ticksSinceExit,     \* ticks Run took since that exit
    \* ---- internal/daemon: processes and marker files ----
    dpc,                \* dpc[p]: position of process p
    op,                 \* op[p]: what process p was started to do
    pidFile,            \* PidFile
    stateFile,          \* StateFile
    rpData,             \* rpData[p]: the `data` p read from PidFile
    rpRet,              \* rpRet[p]: what RunningPID returned to p
    rret,               \* rret[p]: what Run or Daemonize returned, what Stop or Status printed
    extProc,            \* the process not of this program that holds StalePid:
                        \* "none", "own" (of this user) or "other" (of another user)
    \* ---- observations of the processes ----
    pidWriter,          \* the process whose WriteFile last touched PidFile
    stateWriter,        \* the process whose WriteFile last touched StateFile
    wrotePid,           \* wrotePid[p]: p's Run wrote the PID marker
    sigterm,            \* the PIDs SIGTERM was delivered to
    parent,             \* parent[p]: the process that spawned p (0: the shell)
    \* ---- cmd: the start command ----
    interval,           \* interval[p]: the --interval flag p has not yet checked (0: none)
    madeDir,            \* the processes whose os.MkdirAll(outputDir) succeeded
    envChecked,         \* the processes that ran platform.CheckWSLEnvironment
    \* ---- internal/clipboard: one Client, its callers and its peer process ----
    npc,                \* position of NewClient: "idle", "scan", "done"
    cl,                 \* what NewClient returned: "none", "client", "error"
    peer,               \* the spawned process: "none", "init", "serving", "exited"
    honours,            \* the peer exits with status 0 when it reads EXIT
    exitCode,           \* exit status of the peer (-1: none yet)
    killSent,           \* cmd.Process.Kill() was called
    reaped,             \* cmd.Wait() has returned
    inq,                \* lines in the peer's stdin pipe, each with its writer
    inClosed,           \* c.stdin.Close() was called
    outq,               \* lines in the peer's stdout pipe, each with the caller
                        \* whose request elicited it (0: no request)
    mu,                 \* c.mu: the caller holding it (0: unlocked)
    gpc,                \* gpc[g]: position of caller g in its method
    gcall,              \* gcall[g]: the method g is in or was last in
    gsent,              \* gsent[g]: the lines g has written in this call
    glines,             \* glines[g]: the lines g has read in this call
    gret,               \* gret[g]: what the call returned
    \* ---- observations of the client ----
    firstLine,          \* the first line the peer emitted, as NewClient read it
    gforeign,           \* gforeign[g]: g read a line elicited by another caller
    closeLog,           \* what Close has done so far, in order
    \* ---- clipboard.ps1 and the clipboard ----
    spc,                \* position of the script
    reqLine,            \* $line: the line ReadLine returned last
    out,                \* the lines written since that line was read
    lastSeq,            \* $lastSeq
    clipSeq,            \* what GetClipboardSequenceNumber() returns
    clip,               \* the image on the clipboard, or NoImage
    \* ---- observations of the script ----
    changes,            \* how many times the clipboard has changed
    mark,               \* `changes` when the last CHECK read the sequence
                        \* number, or after the write of the last UPDATE (-1: none)
    imaged,             \* the values of `changes` at which a CHECK answered IMAGE
    foreign             \* the last change was made by another application

pollerVars == << pc, client, factoryCalls, closeCount, consecutiveErrors, cancelled,
                 tickPending, files, pngData, pollErr, retval, result, updateCalls,
                 polled, rewritten, checkStreak, trip, tripAtCheck, outcome,
                 cancelAt, factoryFailed, pollStreak, peerExited, ticksSinceExit >>

outageVars == << peerExited, ticksSinceExit >>

startVars == << interval, madeDir, envChecked >>

daemonVars == << dpc, op, pidFile, stateFile, rpData, rpRet, rret, extProc,
                 pidWriter, stateWriter, wrotePid, sigterm, parent, startVars >>

clientVars == << npc, cl, peer, honours, exitCode, killSent, reaped, inq, inClosed,
                 outq, mu, gpc, gcall, gsent, glines, gret, firstLine, gforeign,
                 closeLog >>

scriptVars == << spc, reqLine, out, lastSeq, clipSeq, clip, changes, mark, imaged,
                 foreign >>

vars == << pollerVars, daemonVars, clientVars, scriptVars >>

PollerInit ==
    /\ pc = "start"
    /\ client = NilClient
    /\ factoryCalls = 0
    /\ closeCount = [s \in Sessions |-> 0]
    /\ consecutiveErrors = 0
    /\ cancelled = FALSE
    /\ tickPending = FALSE
    /\ files = [n \in FileNames |-> NoFile]
    /\ pngData = <<>>
    /\ pollErr = FALSE
    /\ retval = "none"
    /\ result = "none"
    /\ updateCalls = [b \in Images |-> 0]
    /\ polled = [b \in Images |-> 0]
    /\ rewritten = [n \in FileNames |-> FALSE]
    /\ checkStreak = 0
    /\ trip = NoTrip
    /\ tripAtCheck = NoTrip
    /\ outcome = "none"
    /\ cancelAt = NoCancel
    /\ factoryFailed = "none"
    /\ pollStreak = 0
    /\ peerExited = FALSE
    /\ ticksSinceExit = 0

(***************************************************************************)
(* poller.Run                                                              *)
(***************************************************************************)
\* if consecutiveErrors >= maxConsecutiveErrors
TripBreaker_gt(n) == n > maxConsecutiveErrors

TripBreaker(n) == n >= maxConsecutiveErrors

\* a counter that a successful poll leaves as it is
CounterAfterSuccess_keep(n) == n

\* } else { consecutiveErrors = 0 }
CounterAfterSuccess(n) == 0

\* a replacement that asks the factory while the old session is still open
AfterTrip_noClose == "breaker_new"

\* the tripped breaker: client.Close() first, then client, err = newClient()
AfterTrip == "breaker_close"

\* The branch of Run after poll returned: the new counter, where Run goes
\* next and what it returns (nothing: a poll error never ends the run).
AfterPoll_fatal(err, n) ==
    IF err
    THEN [errs |-> n + 1, pc |-> "deferred_close", ret |-> "error"]
    ELSE [errs |-> 0, pc |-> "select", ret |-> "none"]

AfterPoll(err, n) ==
    IF err
    THEN [errs |-> n + 1,
          pc |-> IF TripBreaker(n + 1) THEN AfterTrip ELSE "select",
          ret |-> "none"]
    ELSE [errs |-> CounterAfterSuccess(n), pc |-> "select", ret |-> "none"]

\* where poll goes when the file already exists: it returns nil
AfterDedupHit_update == "poll_translate"

AfterDedupHit == "after_poll"

\* os.Stat(filePath) of a poll whose dedup check is missing
Stat_never(fs, name) == FALSE

\* if _, err := os.Stat(filePath); err == nil
Stat(fs, name) == Exists(fs, name)

\* if err != nil { return fmt.Errorf("start clipboard client: %w", err) }
StartFailure_retry == [pc |-> "start", result |-> "none"]

StartFailure == [pc |-> "done", result |-> "error"]

\* if pngData == nil { return nil }
AfterNoImage_translate == "poll_translate"

AfterNoImage == "after_poll"

\* winPath, err := wslToWinPath(filePath); if err != nil { ...; return nil }
AfterTranslate_fatal(failed) ==
    IF failed THEN [pc |-> "after_poll", err |-> TRUE, outcome |-> "translate_err"]
    ELSE [pc |-> "poll_update", err |-> FALSE, outcome |-> "saved"]

AfterTranslate(failed) ==
    IF failed THEN [pc |-> "after_poll", err |-> FALSE, outcome |-> "translate_err"]
    ELSE [pc |-> "poll_update", err |-> FALSE, outcome |-> "saved"]

\* if err := client.UpdateClipboard(...); err != nil { ...; return nil }: the
\* error poll returns
UpdateErr_fatal(failed) == failed

UpdateErr(failed) == FALSE

\* a cancellation that takes effect wherever Run is
CancelObservedAt_any(p) == p \notin {"start", "deferred_close", "done"}

\* ctx is read by the select only: poll and the client calls do not take it
CancelObservedAt(p) == p = "select"

\* client, err := newClient(); if err != nil { return ... }; defer client.Close()
RunStart ==
    /\ pc = "start"
    /\ \/ /\ factoryCalls < MaxSessions
          /\ factoryCalls' = factoryCalls + 1
          /\ client' = factoryCalls + 1
          /\ pc' = "select"
          /\ UNCHANGED << result, factoryFailed >>
       \/ /\ pc' = StartFailure.pc
          /\ result' = StartFailure.result
          /\ factoryFailed' = "start"
          /\ UNCHANGED << client, factoryCalls >>
    /\ UNCHANGED << closeCount, consecutiveErrors, cancelled, tickPending, files,
                    pngData, pollErr, retval, updateCalls, polled, rewritten,
                    checkStreak, trip, tripAtCheck, outcome, cancelAt >>
    /\ UNCHANGED pollStreak
    /\ UNCHANGED outageVars
    /\ UNCHANGED << daemonVars, clientVars, scriptVars >>

\* The ticker delivers a tick into ticker.C (capacity one). A tick that
\* arrives while Run is busy waits in the channel, which Run cannot tell
\* from a tick that arrives once it is back at the select.
Tick ==
    /\ pc = "select"
    /\ ~tickPending
    /\ tickPending' = TRUE
    /\ UNCHANGED << pc, client, factoryCalls, closeCount, consecutiveErrors,
                    cancelled, files, pngData, pollErr, retval, result,
                    updateCalls, polled, rewritten, checkStreak, trip, tripAtCheck,
                    outcome, cancelAt, factoryFailed >>
    /\ UNCHANGED pollStreak
    /\ UNCHANGED outageVars
    /\ UNCHANGED << daemonVars, clientVars, scriptVars >>

\* the caller cancels ctx
Cancel ==
    /\ pc # "done"
    /\ ~cancelled
    /\ cancelled' = TRUE
    /\ cancelAt' = [at |-> IF pc \in {"breaker_close", "breaker_new"} THEN "replace"
                            ELSE IF pc = "start" THEN "start" ELSE "run",
                     client |-> IF pc = "breaker_new" THEN NilClient ELSE client]
    /\ UNCHANGED << pc, client, factoryCalls, closeCount, consecutiveErrors,
                    tickPending, files, pngData, pollErr, retval, result,
                    updateCalls, polled, rewritten, checkStreak, trip, tripAtCheck,
                    outcome, factoryFailed >>
    /\ UNCHANGED pollStreak
    /\ UNCHANGED outageVars
    /\ UNCHANGED << daemonVars, clientVars, scriptVars >>

\* case <-ctx.Done(): return nil
SelectDone ==
    /\ CancelObservedAt(pc)
    /\ cancelled
    /\ pc' = "deferred_close"
    /\ retval' = "nil"
    /\ UNCHANGED << client, factoryCalls, closeCount, consecutiveErrors, cancelled,
                    tickPending, files, pngData, pollErr, result, updateCalls,
                    polled, rewritten, checkStreak, trip, tripAtCheck, outcome,
                    cancelAt, factoryFailed >>
    /\ UNCHANGED pollStreak
    /\ UNCHANGED outageVars
    /\ UNCHANGED << daemonVars, clientVars, scriptVars >>

\* case <-ticker.C: (select picks any ready case)
SelectTick ==
    /\ pc = "select"
    /\ tickPending
    /\ tickPending' = FALSE
    /\ pc' = "poll_check"
    /\ UNCHANGED << client, factoryCalls, closeCount, consecutiveErrors, cancelled,
                    files, pngData, pollErr, retval, result, updateCalls, polled,
                    rewritten, checkStreak, trip, tripAtCheck, outcome, cancelAt,
                    factoryFailed >>
    /\ UNCHANGED pollStreak
    /\ ticksSinceExit' = IF peerExited /\ ticksSinceExit <= maxConsecutiveErrors
                         THEN ticksSinceExit + 1 ELSE ticksSinceExit
    /\ UNCHANGED peerExited
    /\ UNCHANGED << daemonVars, clientVars, scriptVars >>

\* pngData, err := client.Check() returns (at "poll_check" Run is inside Check)
PollCheck ==
    /\ pc = "poll_check"
    /\ tripAtCheck' = [trip EXCEPT !.sentTo = client, !.newest = factoryCalls]
    /\ \/ \* Check returned an error
          /\ pollErr' = TRUE
          /\ pc' = "after_poll"
          /\ checkStreak' = checkStreak + 1
          /\ trip' = IF checkStreak + 1 = maxConsecutiveErrors
                     THEN [NoTrip EXCEPT !.armed = TRUE, !.old = client]
                     ELSE NoTrip
          /\ outcome' = "check_err"
          /\ UNCHANGED << pngData, polled >>
       \/ \* no image in clipboard
          /\ pollErr' = FALSE
          /\ pc' = AfterNoImage
          /\ checkStreak' = 0
          /\ trip' = NoTrip
          /\ outcome' = "no_image"
          /\ UNCHANGED << pngData, polled >>
       \/ \* an image
          \E b \in Images :
              /\ polled' = [polled EXCEPT ![b] = IF @ < 2 THEN @ + 1 ELSE @]
              /\ pngData' = b
              /\ pollErr' = FALSE
              /\ pc' = "poll_save"
              /\ checkStreak' = 0
              /\ trip' = NoTrip
              /\ outcome' = "image"
    /\ UNCHANGED << client, factoryCalls, closeCount, consecutiveErrors, cancelled,
                    tickPending, files, retval, result, updateCalls, rewritten,
                    cancelAt, factoryFailed >>
    /\ UNCHANGED pollStreak
    /\ UNCHANGED outageVars
    /\ UNCHANGED << daemonVars, clientVars, scriptVars >>

\* hash, dedup by presence, os.WriteFile
PollSave ==
    /\ pc = "poll_save"
    /\ LET name == FileName(pngData) IN
       IF Stat(files, name)
       THEN /\ pc' = AfterDedupHit
            /\ pollErr' = FALSE
            /\ outcome' = "dedup"
            /\ UNCHANGED << files, rewritten >>
       ELSE \E w \in WriteFile(files[name], pngData) :
                /\ files' = [files EXCEPT ![name] = w.content]
                /\ rewritten' = [rewritten EXCEPT ![name] = @ \/ Exists(files, name)]
                /\ pollErr' = w.err
                /\ pc' = IF w.err THEN "after_poll" ELSE "poll_translate"
                /\ outcome' = IF w.err THEN "write_err" ELSE "saved"
    /\ UNCHANGED << client, factoryCalls, closeCount, consecutiveErrors, cancelled,
                    tickPending, pngData, retval, result, updateCalls, polled,
                    checkStreak, trip, tripAtCheck, cancelAt, factoryFailed >>
    /\ UNCHANGED pollStreak
    /\ UNCHANGED outageVars
    /\ UNCHANGED << daemonVars, clientVars, scriptVars >>

\* winPath, err := wslToWinPath(filePath)
PollTranslate ==
    /\ pc = "poll_translate"
    /\ \E failed \in BOOLEAN :
          LET next == AfterTranslate(failed) IN
          /\ pc' = next.pc
          /\ pollErr' = next.err
          /\ outcome' = next.outcome
    /\ UNCHANGED << client, factoryCalls, closeCount, consecutiveErrors, cancelled,
                    tickPending, files, pngData, retval, result, updateCalls,
                    polled, rewritten, checkStreak, trip, tripAtCheck, cancelAt,
                    factoryFailed >>
    /\ UNCHANGED pollStreak
    /\ UNCHANGED outageVars
    /\ UNCHANGED << daemonVars, clientVars, scriptVars >>

\* client.UpdateClipboard(filePath, winPath)
PollUpdate ==
    /\ pc = "poll_update"
    /\ updateCalls' = [updateCalls EXCEPT ![pngData] = @ + 1]
    /\ \E failed \in BOOLEAN :
          /\ outcome' = IF failed THEN "update_err" ELSE "updated"
          /\ pollErr' = UpdateErr(failed)
    /\ pc' = "after_poll"
    /\ UNCHANGED << client, factoryCalls, closeCount, consecutiveErrors, cancelled,
                    tickPending, files, pngData, retval, result, polled, rewritten,
                    checkStreak, trip, tripAtCheck, cancelAt, factoryFailed >>
    /\ UNCHANGED pollStreak
    /\ UNCHANGED outageVars
    /\ UNCHANGED << daemonVars, clientVars, scriptVars >>

\* if err := poll(...); err != nil { consecutiveErrors++ ... } else { consecutiveErrors = 0 }
\* (poll has returned: its locals are gone)
RunAfterPoll ==
    /\ pc = "after_poll"
    /\ LET next == AfterPoll(pollErr, consecutiveErrors) IN
       /\ consecutiveErrors' = next.errs
       /\ pc' = next.pc
       /\ retval' = IF next.ret = "none" THEN retval ELSE next.ret
    /\ pngData' = <<>>
    /\ pollErr' = FALSE
    /\ outcome' = "none"
    /\ UNCHANGED << client, factoryCalls, closeCount, cancelled, tickPending, files,
                    result, updateCalls, polled, rewritten, checkStreak, trip,
                    tripAtCheck, cancelAt, factoryFailed >>
    /\ pollStreak' = IF pollErr THEN pollStreak + 1 ELSE 0
    /\ UNCHANGED outageVars
    /\ UNCHANGED << daemonVars, clientVars, scriptVars >>

\* client.Close() of the circuit breaker
BreakerClose ==
    /\ pc = "breaker_close"
    /\ closeCount' = [closeCount EXCEPT ![client] = @ + 1]
    /\ trip' = IF trip.armed /\ trip.old = client
               THEN [trip EXCEPT !.closes = @ + 1] ELSE trip
    /\ pc' = "breaker_new"
    /\ UNCHANGED << client, factoryCalls, consecutiveErrors, cancelled, tickPending,
                    files, pngData, pollErr, retval, result, updateCalls, polled,
                    rewritten, checkStreak, tripAtCheck, outcome, cancelAt,
                    factoryFailed >>
    /\ UNCHANGED pollStreak
    /\ UNCHANGED outageVars
    /\ UNCHANGED << daemonVars, clientVars, scriptVars >>

\* client, err = newClient(); if err != nil { return ... }; consecutiveErrors = 0
BreakerNew ==
    /\ pc = "breaker_new"
    /\ trip' = IF trip.armed THEN [trip EXCEPT !.calls = @ + 1] ELSE trip
    /\ \/ /\ factoryCalls < MaxSessions
          /\ factoryCalls' = factoryCalls + 1
          /\ client' = factoryCalls + 1
          /\ consecutiveErrors' = 0
          /\ checkStreak' = 0
          /\ pc' = "select"
          \* a replacement that was under way at the cancellation has succeeded
          /\ cancelAt' = IF cancelAt.at = "replace"
                         THEN [cancelAt EXCEPT !.at = "replaced"] ELSE cancelAt
          /\ UNCHANGED << retval, factoryFailed >>
       \/ \* the factory failed: client is assigned the nil it returned
          /\ client' = NilClient
          /\ retval' = "error"
          /\ factoryFailed' = "restart"
          /\ pc' = "deferred_close"
          /\ UNCHANGED << factoryCalls, consecutiveErrors, checkStreak, cancelAt >>
    /\ UNCHANGED << closeCount, cancelled, tickPending, files, pngData, pollErr,
                    result, updateCalls, polled, rewritten, tripAtCheck, outcome >>
    /\ pollStreak' = IF pc' = "select" THEN 0 ELSE pollStreak
    \* a new session has a live process
    /\ peerExited' = IF pc' = "select" THEN FALSE ELSE peerExited
    /\ ticksSinceExit' = IF pc' = "select" THEN 0 ELSE ticksSinceExit
    /\ UNCHANGED << daemonVars, clientVars, scriptVars >>

\* defer ticker.Stop(); defer func() { client.Close() }(): Close is called on
\* whatever client holds now; on the nil of a failed factory it panics.
DeferredClose ==
    /\ pc = "deferred_close"
    /\ IF client = NilClient
       THEN /\ result' = "panic"
            /\ UNCHANGED closeCount
       ELSE /\ closeCount' = [closeCount EXCEPT ![client] = @ + 1]
            /\ result' = retval
    /\ pc' = "done"
    /\ UNCHANGED << client, factoryCalls, consecutiveErrors, cancelled, tickPending,
                    files, pngData, pollErr, retval, updateCalls, polled, rewritten,
                    checkStreak, trip, tripAtCheck, outcome, cancelAt,
                    factoryFailed >>
    /\ UNCHANGED pollStreak
    /\ UNCHANGED outageVars
    /\ UNCHANGED << daemonVars, clientVars, scriptVars >>

PollerNext ==
    \/ RunStart
    \/ Tick
    \/ Cancel
    \/ SelectDone
    \/ SelectTick
    \/ PollCheck
    \/ PollSave
    \/ PollTranslate
    \/ PollUpdate
    \/ RunAfterPoll
    \/ BreakerClose
    \/ BreakerNew
    \/ DeferredClose

(***************************************************************************)
(* internal/daemon: text of the markers                                    *)
(***************************************************************************)
Procs == 1..NumProcs

\* the PID a marker left by an earlier boot names
StalePid == 999999

Pids == Procs \cup {StalePid}

DecDigit(d) == <<"0","1","2","3","4","5","6","7","8","9">>[d + 1]

\* strconv.Itoa of a non-negative number
RECURSIVE Itoa(_)
Itoa(n) == IF n < 10 THEN << DecDigit(n) >> ELSE Itoa(n \div 10) \o << DecDigit(n % 10) >>

IsSpace(c) == c \in {" ", "\t", "\n", "\r"}

RECURSIVE TrimLeft(_)
TrimLeft(s) == IF s # <<>> /\ IsSpace(Head(s)) THEN TrimLeft(Tail(s)) ELSE s

RECURSIVE TrimRight(_)
TrimRight(s) ==
    IF s # <<>> /\ IsSpace(s[Len(s)]) THEN TrimRight(SubSeq(s, 1, Len(s) - 1)) ELSE s

\* strings.TrimSpace
TrimSpace(s) == TrimRight(TrimLeft(s))

IsDigit(c) == \E d \in 0..9 : DecDigit(d) = c

DigitVal(c) == CHOOSE d \in 0..9 : DecDigit(d) = c

RECURSIVE ParseDigits(_)
ParseDigits(s) ==
    IF s = <<>> THEN 0
    ELSE ParseDigits(SubSeq(s, 1, Len(s) - 1)) * 10 + DigitVal(s[Len(s)])

\* strconv.Atoi: an optional sign and at least one digit, nothing else
Atoi(s) ==
    LET signed == s # <<>> /\ Head(s) \in {"+", "-"}
        body == IF signed THEN Tail(s) ELSE s
    IN  IF body = <<>> \/ \E i \in 1..Len(body) : ~IsDigit(body[i])
        THEN [err |-> TRUE, val |-> 0]
        ELSE [err |-> FALSE,
              val |-> IF signed /\ Head(s) = "-" THEN 0 - ParseDigits(body)
                      ELSE ParseDigits(body)]

\* the outputDir process p is started with
OutDir(p) == <<"/">> \o Itoa(p)

\* the output directory in the state marker left by an earlier boot
OldDir == <<"/", "o">>

(***************************************************************************)
(* internal/daemon: RunningPID, Run, Daemonize, Stop, Status               *)
(***************************************************************************)
\* a probe that only finds the processes of this program
Alive_ownOnly(pid) == pid \in Procs /\ dpc[pid] \notin {"idle", "exited"}

\* proc.Signal(0) succeeds: a process with this PID exists and this user may
\* signal it (for a process of another user Signal fails with EPERM)
Alive(pid) ==
    \/ pid \in Procs /\ dpc[pid] \notin {"idle", "exited"}
    \/ pid = StalePid /\ extProc = "own"

AlivePids == { pid \in Pids : Alive(pid) }

\* RunningPID after os.ReadFile succeeded: the PID it returns and whether it
\* removes PidFile
RunningPIDResult_keepStale(data, alive) ==
    LET r == Atoi(TrimSpace(data)) IN
    IF r.err THEN [ret |-> 0, remove |-> TRUE]
    ELSE IF r.val \notin alive THEN [ret |-> 0, remove |-> FALSE]
    ELSE [ret |-> r.val, remove |-> FALSE]

RunningPIDResult(data, alive) ==
    LET r == Atoi(TrimSpace(data)) IN
    IF r.err THEN [ret |-> 0, remove |-> TRUE]
    ELSE IF r.val \notin alive THEN [ret |-> 0, remove |-> TRUE]
    ELSE [ret |-> r.val, remove |-> FALSE]

\* if pid := RunningPID(); pid != 0 { ...; return nil }
AlreadyRunning_never(pid) == FALSE

AlreadyRunning(pid) == pid # 0

\* Stop after os.ReadFile succeeded: the PID SIGTERM is delivered to (0: none)
\* and the message printed; PidFile is removed on every branch
StopResult_signalStale(data, alive) ==
    LET r == Atoi(TrimSpace(data)) IN
    IF r.err THEN [signal |-> 0, msg |-> "corrupt"]
    ELSE IF r.val \notin alive THEN [signal |-> r.val, msg |-> "stale"]
    ELSE [signal |-> r.val, msg |-> "stopped"]

StopResult(data, alive) ==
    LET r == Atoi(TrimSpace(data)) IN
    IF r.err THEN [signal |-> 0, msg |-> "corrupt"]
    ELSE IF r.val \notin alive THEN [signal |-> 0, msg |-> "stale"]
    ELSE [signal |-> r.val, msg |-> "stopped"]

DaemonInit ==
    /\ dpc = [p \in Procs |-> "idle"]
    /\ op = [p \in Procs |-> "none"]
    /\ \/ /\ pidFile = NoFile
          /\ stateFile = NoFile
          /\ extProc = "none"
       \/ \* an earlier instance went away without cleaning up
          /\ pidFile = File(Itoa(StalePid))
          /\ stateFile = File(OldDir)
          /\ extProc \in {"none", "own", "other"}
    /\ rpData = [p \in Procs |-> <<>>]
    /\ rpRet = [p \in Procs |-> 0]
    /\ rret = [p \in Procs |-> "none"]
    /\ pidWriter = 0
    /\ stateWriter = 0
    /\ wrotePid = [p \in Procs |-> FALSE]
    /\ sigterm = {}
    /\ parent = [p \in Procs |-> 0]
    /\ interval = [p \in Procs |-> 0]
    /\ madeDir = {}
    /\ envChecked = {}

\* the bounds of --interval, in ms
MinInterval == 100

MaxInterval == 5000

\* the --interval values tried: both bounds and their outer neighbours
Intervals == {MinInterval - 1, MinInterval, MaxInterval, MaxInterval + 1}

\* a check that rejects the bounds themselves
ValidInterval_open(i) == ~(i <= MinInterval \/ i >= MaxInterval)

\* if interval < 100 || interval > 5000 { return fmt.Errorf(...) }
ValidInterval(i) == ~(i < MinInterval \/ i > MaxInterval)

\* startCmd.RunE before daemon.Daemonize / daemon.Run: the error it returns
\* ("none": it goes on) and which of MkdirAll (with success) and
\* CheckWSLEnvironment it ran
StartResult(i, daemonize, mkdirOk, envOk) ==
    IF ~ValidInterval(i) THEN [ret |-> "interval", mkdir |-> FALSE, env |-> FALSE]
    ELSE IF ~mkdirOk THEN [ret |-> "mkdir", mkdir |-> FALSE, env |-> FALSE]
    ELSE IF daemonize /\ ~envOk THEN [ret |-> "env", mkdir |-> TRUE, env |-> TRUE]
    ELSE [ret |-> "none", mkdir |-> TRUE, env |-> daemonize]

\* a shell runs `wsl-screenshot-cli start | start --daemon | stop | status`
Start(p) ==
    /\ dpc[p] = "idle"
    /\ \E o \in {"Run", "Daemonize", "Stop", "Status"} :
          /\ op' = [op EXCEPT ![p] = o]
          /\ IF o \in {"Run", "Daemonize"}
             THEN /\ dpc' = [dpc EXCEPT ![p] = "cmd_start"]
                  /\ \E i \in Intervals : interval' = [interval EXCEPT ![p] = i]
             ELSE /\ dpc' = [dpc EXCEPT ![p] = IF o = "Stop" THEN "stop_read" ELSE "rp_read"]
                  /\ UNCHANGED interval
    /\ UNCHANGED << pidFile, stateFile, rpData, rpRet, rret, extProc, pidWriter,
                    stateWriter, wrotePid, sigterm, parent, madeDir, envChecked >>
    /\ UNCHANGED << pollerVars, clientVars, scriptVars >>

\* startCmd.RunE up to the call of daemon.Daemonize or daemon.Run: the check
\* of the interval, os.MkdirAll(outputDir), and with --daemon
\* platform.CheckWSLEnvironment
StartCmd(p) ==
    /\ dpc[p] = "cmd_start"
    /\ \E mkdirOk, envOk \in BOOLEAN :
          LET r == StartResult(interval[p], op[p] = "Daemonize", mkdirOk, envOk) IN
          /\ dpc' = [dpc EXCEPT ![p] = IF r.ret = "none" THEN "rp_read" ELSE "exited"]
          /\ rret' = [rret EXCEPT ![p] = r.ret]
          /\ madeDir' = IF r.mkdir THEN madeDir \cup {p} ELSE madeDir
          /\ envChecked' = IF r.env THEN envChecked \cup {p} ELSE envChecked
    /\ interval' = [interval EXCEPT ![p] = 0]
    /\ UNCHANGED << op, pidFile, stateFile, rpData, rpRet, extProc, pidWriter,
                    stateWriter, wrotePid, sigterm, parent >>
    /\ UNCHANGED << pollerVars, clientVars, scriptVars >>

\* RunningPID: data, err := os.ReadFile(PidFile); if err != nil { return 0 }
RPRead(p) ==
    /\ dpc[p] = "rp_read"
    /\ IF pidFile.there
       THEN /\ rpData' = [rpData EXCEPT ![p] = pidFile.data]
            /\ dpc' = [dpc EXCEPT ![p] = "rp_probe"]
            /\ UNCHANGED rpRet
       ELSE /\ rpRet' = [rpRet EXCEPT ![p] = 0]
            /\ dpc' = [dpc EXCEPT ![p] = "rp_ret"]
            /\ UNCHANGED rpData
    /\ UNCHANGED << op, pidFile, stateFile, rret, extProc, pidWriter, stateWriter,
                    wrotePid, sigterm, parent >>
    /\ UNCHANGED startVars
    /\ UNCHANGED << pollerVars, clientVars, scriptVars >>

\* RunningPID: Atoi, FindProcess, Signal(0), os.Remove of a corrupt or stale marker
RPProbe(p) ==
    /\ dpc[p] = "rp_probe"
    /\ LET r == RunningPIDResult(rpData[p], AlivePids) IN
       /\ rpRet' = [rpRet EXCEPT ![p] = r.ret]
       /\ pidFile' = IF r.remove THEN NoFile ELSE pidFile
       /\ pidWriter' = IF r.remove THEN 0 ELSE pidWriter
    /\ rpData' = [rpData EXCEPT ![p] = <<>>]
    /\ dpc' = [dpc EXCEPT ![p] = "rp_ret"]
    /\ UNCHANGED << op, stateFile, rret, extProc, stateWriter, wrotePid, sigterm,
                    parent >>
    /\ UNCHANGED startVars
    /\ UNCHANGED << pollerVars, clientVars, scriptVars >>

\* Run: if pid := RunningPID(); pid != 0 { print; return nil }
RunCheck(p) ==
    /\ dpc[p] = "rp_ret"
    /\ op[p] = "Run"
    /\ IF AlreadyRunning(rpRet[p])
       THEN /\ dpc' = [dpc EXCEPT ![p] = "exited"]
            /\ rret' = [rret EXCEPT ![p] = "nil"]
       ELSE /\ dpc' = [dpc EXCEPT ![p] = "run_write_pid"]
            /\ UNCHANGED rret
    /\ rpRet' = [rpRet EXCEPT ![p] = 0]
    /\ UNCHANGED << op, pidFile, stateFile, rpData, extProc, pidWriter, stateWriter,
                    wrotePid, sigterm, parent >>
    /\ UNCHANGED startVars
    /\ UNCHANGED << pollerVars, clientVars, scriptVars >>

\* Run: os.WriteFile(PidFile, Itoa(os.Getpid())); defer os.Remove(PidFile)
RunWritePid(p) ==
    /\ dpc[p] = "run_write_pid"
    /\ \E w \in WriteFile(pidFile, Itoa(p)) :
          /\ pidFile' = w.content
          /\ pidWriter' = IF w.opened THEN p ELSE pidWriter
          /\ IF w.err
             THEN /\ dpc' = [dpc EXCEPT ![p] = "exited"]
                  /\ rret' = [rret EXCEPT ![p] = "error"]
                  /\ UNCHANGED wrotePid
             ELSE /\ dpc' = [dpc EXCEPT ![p] = "run_write_state"]
                  /\ wrotePid' = [wrotePid EXCEPT ![p] = TRUE]
                  /\ UNCHANGED rret
    /\ UNCHANGED << op, stateFile, rpData, rpRet, extProc, stateWriter, sigterm,
                    parent >>
    /\ UNCHANGED startVars
    /\ UNCHANGED << pollerVars, clientVars, scriptVars >>

\* Run: os.WriteFile(StateFile, outputDir); defer os.Remove(StateFile)
RunWriteState(p) ==
    /\ dpc[p] = "run_write_state"
    /\ \E w \in WriteFile(stateFile, OutDir(p)) :
          /\ stateFile' = w.content
          /\ stateWriter' = IF w.opened THEN p ELSE stateWriter
          /\ IF w.err
             THEN /\ dpc' = [dpc EXCEPT ![p] = "defer_pid"]
                  /\ rret' = [rret EXCEPT ![p] = "error"]
             ELSE /\ dpc' = [dpc EXCEPT ![p] = "pollFn"]
                  /\ UNCHANGED rret
    /\ UNCHANGED << op, pidFile, rpData, rpRet, extProc, pidWriter, wrotePid,
                    sigterm, parent >>
    /\ UNCHANGED startVars
    /\ UNCHANGED << pollerVars, clientVars, scriptVars >>

\* Run: return pollFn(ctx, logger): pollFn returns nil or an error, or panics
PollFnReturns(p) ==
    /\ dpc[p] = "pollFn"
    /\ \E r \in {"nil", "error", "panic"} : rret' = [rret EXCEPT ![p] = r]
    /\ dpc' = [dpc EXCEPT ![p] = "defer_state"]
    /\ UNCHANGED << op, pidFile, stateFile, rpData, rpRet, extProc, pidWriter,
                    stateWriter, wrotePid, sigterm, parent >>
    /\ UNCHANGED startVars
    /\ UNCHANGED << pollerVars, clientVars, scriptVars >>

\* Run: the deferred os.Remove(StateFile)
DeferState(p) ==
    /\ dpc[p] = "defer_state"
    /\ stateFile' = NoFile
    /\ stateWriter' = 0
    /\ dpc' = [dpc EXCEPT ![p] = "defer_pid"]
    /\ UNCHANGED << op, pidFile, rpData, rpRet, rret, extProc, pidWriter, wrotePid,
                    sigterm, parent >>
    /\ UNCHANGED startVars
    /\ UNCHANGED << pollerVars, clientVars, scriptVars >>

\* Run: the deferred os.Remove(PidFile); Run returns and the process exits
DeferPid(p) ==
    /\ dpc[p] = "defer_pid"
    /\ pidFile' = NoFile
    /\ pidWriter' = 0
    /\ dpc' = [dpc EXCEPT ![p] = "exited"]
    /\ UNCHANGED << op, stateFile, rpData, rpRet, rret, extProc, stateWriter,
                    wrotePid, sigterm, parent >>
    /\ UNCHANGED startVars
    /\ UNCHANGED << pollerVars, clientVars, scriptVars >>

\* Daemonize: if pid := RunningPID(); pid != 0 { print; return nil }
DzCheck(p) ==
    /\ dpc[p] = "rp_ret"
    /\ op[p] = "Daemonize"
    /\ IF AlreadyRunning(rpRet[p])
       THEN /\ dpc' = [dpc EXCEPT ![p] = "exited"]
            /\ rret' = [rret EXCEPT ![p] = "nil"]
       ELSE /\ dpc' = [dpc EXCEPT ![p] = "dz_spawn"]
            /\ UNCHANGED rret
    /\ rpRet' = [rpRet EXCEPT ![p] = 0]
    /\ UNCHANGED << op, pidFile, stateFile, rpData, extProc, pidWriter, stateWriter,
                    wrotePid, sigterm, parent >>
    /\ UNCHANGED startVars
    /\ UNCHANGED << pollerVars, clientVars, scriptVars >>

\* a Daemonize that reports success whether or not the child started
SpawnReturn_nil(started) == "nil"

\* what Daemonize returns after newDaemonCmd, os.OpenFile and child.Start()
SpawnReturn(started) == IF started THEN "nil" ELSE "error"

\* Daemonize: newDaemonCmd, os.OpenFile(LogFile), child.Start(); the child
\* runs `start`, that is daemon.Run
DzSpawn(p) ==
    /\ dpc[p] = "dz_spawn"
    /\ \/ \* no executable path, no log file, or the child does not start
          /\ dpc' = [dpc EXCEPT ![p] = "exited"]
          /\ rret' = [rret EXCEPT ![p] = SpawnReturn(FALSE)]
          /\ UNCHANGED << op, parent, interval >>
       \/ \E q \in Procs :
             /\ dpc[q] = "idle"
             /\ dpc' = [dpc EXCEPT ![p] = "exited", ![q] = "cmd_start"]
             /\ op' = [op EXCEPT ![q] = "Run"]
             \* "--interval", strconv.Itoa(interval): one that passed p's check
             /\ \E i \in { j \in Intervals : ValidInterval(j) } :
                   interval' = [interval EXCEPT ![q] = i]
             /\ parent' = [parent EXCEPT ![q] = p]
             /\ rret' = [rret EXCEPT ![p] = SpawnReturn(TRUE)]
    /\ UNCHANGED << pidFile, stateFile, rpData, rpRet, extProc, pidWriter,
                    stateWriter, wrotePid, sigterm >>
    /\ UNCHANGED << madeDir, envChecked >>
    /\ UNCHANGED << pollerVars, clientVars, scriptVars >>

\* Status: pid := RunningPID(); if pid == 0 { return nil } ...
StatusCheck(p) ==
    /\ dpc[p] = "rp_ret"
    /\ op[p] = "Status"
    /\ rret' = [rret EXCEPT ![p] = IF rpRet[p] = 0 THEN "not_running" ELSE "running"]
    /\ rpRet' = [rpRet EXCEPT ![p] = 0]
    /\ dpc' = [dpc EXCEPT ![p] = "exited"]
    /\ UNCHANGED << op, pidFile, stateFile, rpData, extProc, pidWriter, stateWriter,
                    wrotePid, sigterm, parent >>
    /\ UNCHANGED startVars
    /\ UNCHANGED << pollerVars, clientVars, scriptVars >>

\* Stop: data, err := os.ReadFile(PidFile); if err != nil { print; return }
StopRead(p) ==
    /\ dpc[p] = "stop_read"
    /\ IF pidFile.there
       THEN /\ rpData' = [rpData EXCEPT ![p] = pidFile.data]
            /\ dpc' = [dpc EXCEPT ![p] = "stop_signal"]
            /\ UNCHANGED rret
       ELSE /\ rret' = [rret EXCEPT ![p] = "not_running"]
            /\ dpc' = [dpc EXCEPT ![p] = "exited"]
            /\ UNCHANGED rpData
    /\ UNCHANGED << op, pidFile, stateFile, rpRet, extProc, pidWriter, stateWriter,
                    wrotePid, sigterm, parent >>
    /\ UNCHANGED startVars
    /\ UNCHANGED << pollerVars, clientVars, scriptVars >>

\* Stop: Atoi, FindProcess, Signal(SIGTERM), os.Remove(PidFile) on every branch
StopSignal(p) ==
    /\ dpc[p] = "stop_signal"
    /\ LET r == StopResult(rpData[p], AlivePids) IN
       /\ sigterm' = IF r.signal # 0 THEN sigterm \cup {r.signal} ELSE sigterm
       /\ rret' = [rret EXCEPT ![p] = r.msg]
    /\ pidFile' = NoFile
    /\ pidWriter' = 0
    /\ rpData' = [rpData EXCEPT ![p] = <<>>]
    /\ dpc' = [dpc EXCEPT ![p] = "exited"]
    /\ UNCHANGED << op, stateFile, rpRet, extProc, stateWriter, wrotePid, parent >>
    /\ UNCHANGED startVars
    /\ UNCHANGED << pollerVars, clientVars, scriptVars >>

\* the process that is not of this program exits
ExtExit ==
    /\ extProc # "none"
    /\ extProc' = "none"
    /\ UNCHANGED << dpc, op, pidFile, stateFile, rpData, rpRet, rret, pidWriter,
                    stateWriter, wrotePid, sigterm, parent >>
    /\ UNCHANGED startVars
    /\ UNCHANGED << pollerVars, clientVars, scriptVars >>

DaemonNext ==
    \/ \E p \in Procs : Start(p)
    \/ \E p \in Procs : StartCmd(p)
    \/ \E p \in Procs : RPRead(p)
    \/ \E p \in Procs : RPProbe(p)
    \/ \E p \in Procs : RunCheck(p)
    \/ \E p \in Procs : RunWritePid(p)
    \/ \E p \in Procs : RunWriteState(p)
    \/ \E p \in Procs : PollFnReturns(p)
    \/ \E p \in Procs : DeferState(p)
    \/ \E p \in Procs : DeferPid(p)
    \/ \E p \in Procs : DzCheck(p)
    \/ \E p \in Procs : DzSpawn(p)
    \/ \E p \in Procs : StatusCheck(p)
    \/ \E p \in Procs : StopRead(p)
    \/ \E p \in Procs : StopSignal(p)
    \/ ExtExit

\* no process of the program has been started and no marker exists
DaemonIdle ==
    /\ DaemonInit
    /\ pidFile = NoFile

(***************************************************************************)
(* internal/clipboard: lines of the protocol                               *)
(***************************************************************************)
\* number of goroutines calling methods of the one Client
NumCallers == 2

Callers == 1..NumCallers

READY == <<"R", "E", "A", "D", "Y">>

CHECK == <<"C", "H", "E", "C", "K">>

NONE == <<"N", "O", "N", "E">>

IMAGE == <<"I", "M", "A", "G", "E">>

END == <<"E", "N", "D">>

OK == <<"O", "K">>

EXIT == <<"E", "X", "I", "T">>

ErrPrefix == <<"E", "R", "R", "|">>

UpdatePrefix == <<"U", "P", "D", "A", "T", "E", "|">>

\* strings.HasPrefix
HasPrefix(s, pre) == Len(s) >= Len(pre) /\ SubSeq(s, 1, Len(pre)) = pre

\* strings.TrimPrefix
TrimPrefix(s, pre) == IF HasPrefix(s, pre) THEN SubSeq(s, Len(pre) + 1, Len(s)) ELSE s

\* the paths UpdateClipboard is called with
WslPath == <<"/", "a">>

WinPath == <<"C", ":", "a">>

\* fmt.Sprintf("UPDATE|%s|%s", wslPath, winPath)
UpdateLine(wslPath, winPath) == UpdatePrefix \o wslPath \o <<"|">> \o winPath

\* the alphabet of base64.StdEncoding, values 0..63
B64Alphabet ==
    <<"A","B","C","D","E","F","G","H","I","J","K","L","M","N","O","P",
      "Q","R","S","T","U","V","W","X","Y","Z","a","b","c","d","e","f",
      "g","h","i","j","k","l","m","n","o","p","q","r","s","t","u","v",
      "w","x","y","z","0","1","2","3","4","5","6","7","8","9","+","/">>

IsB64(c) == \E v \in 1..64 : B64Alphabet[v] = c

B64Val(c) == (CHOOSE v \in 1..64 : B64Alphabet[v] = c) - 1

\* one group of four characters: the bytes it encodes, or an error
DecodeGroup(g, last) ==
    IF IsB64(g[1]) /\ IsB64(g[2]) /\ IsB64(g[3]) /\ IsB64(g[4])
    THEN LET n == ((B64Val(g[1]) * 64 + B64Val(g[2])) * 64 + B64Val(g[3])) * 64 + B64Val(g[4])
         IN  [err |-> FALSE, bytes |-> << n \div 65536, (n \div 256) % 256, n % 256 >>]
    ELSE IF last /\ IsB64(g[1]) /\ IsB64(g[2]) /\ IsB64(g[3]) /\ g[4] = "="
    THEN LET n == (B64Val(g[1]) * 64 + B64Val(g[2])) * 64 + B64Val(g[3])
         IN  [err |-> FALSE, bytes |-> << n \div 1024, (n \div 4) % 256 >>]
    ELSE IF last /\ IsB64(g[1]) /\ IsB64(g[2]) /\ g[3] = "=" /\ g[4] = "="
    THEN [err |-> FALSE, bytes |-> << (B64Val(g[1]) * 64 + B64Val(g[2])) \div 16 >>]
    ELSE [err |-> TRUE, bytes |-> <<>>]

\* base64.StdEncoding.DecodeString
RECURSIVE DecodeString(_)
DecodeString(s) ==
    IF s = <<>> THEN [err |-> FALSE, bytes |-> <<>>]
    ELSE IF Len(s) < 4 THEN [err |-> TRUE, bytes |-> <<>>]
    ELSE LET head == DecodeGroup(SubSeq(s, 1, 4), Len(s) = 4)
             rest == DecodeString(SubSeq(s, 5, Len(s)))
         IN  IF head.err \/ rest.err THEN [err |-> TRUE, bytes |-> <<>>]
             ELSE [err |-> FALSE, bytes |-> head.bytes \o rest.bytes]

(***************************************************************************)
(* internal/clipboard: the peer process                                    *)
(***************************************************************************)
\* a line in a pipe: its text and the caller it belongs to
Line(t, g) == [text |-> t, for |-> g]

\* a payload line that decodes to the one byte 1, one of illegal length and
\* a line that is no protocol word
B64Good == <<"A", "Q", "=", "=">>

B64Bad == <<"A", "Q", "=">>

Junk == <<"?">>

\* the first line a spawned process can emit
FirstLines == { READY, READY \o <<" ">>, NONE }

\* what a process can write in answer to CHECK, and whether it exits after it
CheckResponses ==
    { [lines |-> << NONE >>, exits |-> FALSE],
      [lines |-> << <<" ">> \o NONE >>, exits |-> FALSE],
      [lines |-> << IMAGE, B64Good, END >>, exits |-> FALSE],
      [lines |-> << IMAGE, B64Bad, END >>, exits |-> FALSE],
      [lines |-> << IMAGE, B64Good, Junk >>, exits |-> FALSE],
      [lines |-> << IMAGE, B64Good >>, exits |-> TRUE],
      [lines |-> << IMAGE >>, exits |-> TRUE],
      [lines |-> << Junk >>, exits |-> FALSE],
      [lines |-> << >>, exits |-> TRUE] }

\* what a process can write in answer to UPDATE|...
UpdateResponses ==
    { [lines |-> << OK >>, exits |-> FALSE],
      [lines |-> << OK \o <<" ">> >>, exits |-> FALSE],
      [lines |-> << ErrPrefix \o <<"m">> >>, exits |-> FALSE],
      [lines |-> << Junk >>, exits |-> FALSE],
      [lines |-> << >>, exits |-> TRUE] }

RECURSIVE Tagged(_, _)
Tagged(lines, g) ==
    IF lines = <<>> THEN <<>> ELSE << Line(Head(lines), g) >> \o Tagged(Tail(lines), g)

NoRet == [done |-> FALSE, isNil |-> TRUE, bytes |-> <<>>, err |-> "none", text |-> <<>>]

\* a method returned: data (nil or bytes) and the kind and text of its error
Ret(isNil, bytes, err, text) ==
    [done |-> TRUE, isNil |-> isNil, bytes |-> bytes, err |-> err, text |-> text]

ClientInit ==
    /\ npc = "idle"
    /\ cl = "none"
    /\ peer = "none"
    /\ honours = FALSE
    /\ exitCode = -1
    /\ killSent = FALSE
    /\ reaped = FALSE
    /\ inq = <<>>
    /\ inClosed = FALSE
    /\ outq = <<>>
    /\ mu = 0
    /\ gpc = [g \in Callers |-> "idle"]
    /\ gcall = [g \in Callers |-> "none"]
    /\ gsent = [g \in Callers |-> <<>>]
    /\ glines = [g \in Callers |-> <<>>]
    /\ gret = [g \in Callers |-> NoRet]
    /\ firstLine = [got |-> FALSE, text |-> <<>>]
    /\ gforeign = [g \in Callers |-> FALSE]
    /\ closeLog = <<>>

\* the process writes its first line
PeerFirst ==
    /\ peer = "init"
    /\ \E l \in FirstLines : outq' = Append(outq, Line(l, 0))
    /\ peer' = "serving"
    /\ UNCHANGED << npc, cl, honours, exitCode, killSent, reaped, inq, inClosed, mu,
                    gpc, gcall, gsent, glines, gret, firstLine, gforeign, closeLog >>
    /\ UNCHANGED << pollerVars, daemonVars, scriptVars >>

\* the process reads one line of its input and acts on it
PeerServe ==
    /\ peer = "serving"
    /\ inq # <<>>
    /\ inq' = Tail(inq)
    /\ LET req == Head(inq) IN
       IF req.text = EXIT
       THEN /\ peer' = IF honours THEN "exited" ELSE peer
            /\ exitCode' = IF honours THEN 0 ELSE exitCode
            /\ UNCHANGED outq
       ELSE \E r \in (IF req.text = CHECK THEN CheckResponses ELSE UpdateResponses) :
               /\ outq' = outq \o Tagged(r.lines, req.for)
               /\ peer' = IF r.exits THEN "exited" ELSE peer
               /\ exitCode' = IF r.exits THEN 1 ELSE exitCode
    /\ UNCHANGED << npc, cl, honours, killSent, reaped, inClosed, mu, gpc, gcall,
                    gsent, glines, gret, firstLine, gforeign, closeLog >>
    /\ UNCHANGED << pollerVars, daemonVars, scriptVars >>

\* the process exits abnormally
PeerCrash ==
    /\ peer \in {"init", "serving"}
    /\ peer' = "exited"
    /\ exitCode' = 1
    /\ UNCHANGED << npc, cl, honours, killSent, reaped, inq, inClosed, outq, mu, gpc,
                    gcall, gsent, glines, gret, firstLine, gforeign, closeLog >>
    /\ UNCHANGED << pollerVars, daemonVars, scriptVars >>

(***************************************************************************)
(* internal/clipboard: NewClient                                           *)
(***************************************************************************)
\* strings.TrimSpace(scanner.Text()) == "READY", with any line taken for it
IsReady_any(line) == TRUE

IsReady(line) == TrimSpace(line) = READY

\* cmd.StdinPipe(), cmd.StdoutPipe(), cmd.Start()
NewClientStart ==
    /\ npc = "idle"
    /\ \/ \* a pipe cannot be made or the process does not start
          /\ cl' = "error"
          /\ npc' = "done"
          /\ UNCHANGED << peer, honours >>
       \/ /\ peer' = "init"
          /\ honours' \in BOOLEAN
          /\ npc' = "scan"
          /\ UNCHANGED cl
    /\ UNCHANGED << exitCode, killSent, reaped, inq, inClosed, outq, mu, gpc, gcall,
                    gsent, glines, gret, firstLine, gforeign, closeLog >>
    /\ UNCHANGED << pollerVars, daemonVars, scriptVars >>

\* scanner.Scan() for the READY line; Kill and Wait unless it is READY
NewClientScan ==
    /\ npc = "scan"
    /\ outq # <<>> \/ peer = "exited"
    /\ IF outq = <<>>
       THEN /\ killSent' = TRUE
            /\ reaped' = TRUE
            /\ cl' = "error"
            /\ UNCHANGED << peer, exitCode, outq, firstLine >>
       ELSE /\ firstLine' = [got |-> TRUE, text |-> Head(outq).text]
            /\ outq' = Tail(outq)
            /\ IF IsReady(Head(outq).text)
               THEN /\ cl' = "client"
                    /\ UNCHANGED << peer, exitCode, killSent, reaped >>
               ELSE /\ killSent' = TRUE
                    /\ peer' = "exited"
                    /\ exitCode' = IF peer = "exited" THEN exitCode ELSE 1
                    /\ reaped' = TRUE
                    /\ cl' = "error"
    /\ npc' = "done"
    /\ UNCHANGED << honours, inq, inClosed, mu, gpc, gcall, gsent, glines, gret,
                    gforeign, closeLog >>
    /\ UNCHANGED << pollerVars, daemonVars, scriptVars >>

(***************************************************************************)
(* internal/clipboard: Check, UpdateClipboard, Close                       *)
(***************************************************************************)
\* c.mu.Lock() can proceed
CanLock_always(holder) == TRUE

CanLock(holder) == holder = 0

\* still reading
More == [more |-> TRUE, ret |-> NoRet]

Return(r) == [more |-> FALSE, ret |-> r]

\* Check after its request was written: what it does once it has read
\* `lines` and, if eof, c.stdout.Scan() then returned false
CheckResult_noEnd(lines, eof) ==
    IF lines = <<>>
    THEN IF eof THEN Return(Ret(TRUE, <<>>, "exited", <<>>)) ELSE More
    ELSE IF TrimSpace(lines[1]) = NONE THEN Return(Ret(TRUE, <<>>, "nil", <<>>))
    ELSE IF TrimSpace(lines[1]) = IMAGE
    THEN IF Len(lines) = 1
         THEN IF eof THEN Return(Ret(TRUE, <<>>, "base64_exited", <<>>)) ELSE More
         ELSE IF Len(lines) = 2
         THEN IF eof THEN Return(Ret(TRUE, <<>>, "end_exited", <<>>)) ELSE More
         ELSE LET d == DecodeString(TrimSpace(lines[2])) IN
              IF d.err THEN Return(Ret(TRUE, <<>>, "decode", <<>>))
              ELSE Return(Ret(FALSE, d.bytes, "nil", <<>>))
    ELSE Return(Ret(TRUE, <<>>, "unexpected", TrimSpace(lines[1])))

CheckResult(lines, eof) ==
    IF lines = <<>>
    THEN IF eof THEN Return(Ret(TRUE, <<>>, "exited", <<>>)) ELSE More
    ELSE IF TrimSpace(lines[1]) = NONE THEN Return(Ret(TRUE, <<>>, "nil", <<>>))
    ELSE IF TrimSpace(lines[1]) = IMAGE
    THEN IF Len(lines) = 1
         THEN IF eof THEN Return(Ret(TRUE, <<>>, "base64_exited", <<>>)) ELSE More
         ELSE IF Len(lines) = 2
         THEN IF eof THEN Return(Ret(TRUE, <<>>, "end_exited", <<>>)) ELSE More
         ELSE IF TrimSpace(lines[3]) # END
         THEN Return(Ret(TRUE, <<>>, "expected_end", TrimSpace(lines[3])))
         ELSE LET d == DecodeString(TrimSpace(lines[2])) IN
              IF d.err THEN Return(Ret(TRUE, <<>>, "decode", <<>>))
              ELSE Return(Ret(FALSE, d.bytes, "nil", <<>>))
    ELSE Return(Ret(TRUE, <<>>, "unexpected", TrimSpace(lines[1])))

\* UpdateClipboard after its request was written, likewise
UpdateResult_lenient(lines, eof) ==
    IF lines = <<>>
    THEN IF eof THEN Return(Ret(TRUE, <<>>, "exited", <<>>)) ELSE More
    ELSE IF HasPrefix(TrimSpace(lines[1]), ErrPrefix)
    THEN Return(Ret(TRUE, <<>>, "peer", TrimPrefix(TrimSpace(lines[1]), ErrPrefix)))
    ELSE Return(Ret(TRUE, <<>>, "nil", <<>>))

UpdateResult(lines, eof) ==
    IF lines = <<>>
    THEN IF eof THEN Return(Ret(TRUE, <<>>, "exited", <<>>)) ELSE More
    ELSE IF TrimSpace(lines[1]) = OK THEN Return(Ret(TRUE, <<>>, "nil", <<>>))
    ELSE IF HasPrefix(TrimSpace(lines[1]), ErrPrefix)
    THEN Return(Ret(TRUE, <<>>, "peer", TrimPrefix(TrimSpace(lines[1]), ErrPrefix)))
    ELSE Return(Ret(TRUE, <<>>, "unexpected", TrimSpace(lines[1])))

\* the line a method writes first
RequestLine(method) ==
    IF method = "Check" THEN CHECK
    ELSE IF method = "Update" THEN UpdateLine(WslPath, WinPath)
    ELSE EXIT

\* c.cmd.Wait() returns
WaitReturns_early(p) == TRUE

WaitReturns(p) == p = "exited"

\* a goroutine calls a method of the Client
Call(g) ==
    /\ gpc[g] = "idle"
    /\ cl = "client"
    /\ \E m \in {"Check", "Update", "Close"} : gcall' = [gcall EXCEPT ![g] = m]
    /\ gpc' = [gpc EXCEPT ![g] = "lock"]
    /\ gsent' = [gsent EXCEPT ![g] = <<>>]
    /\ glines' = [glines EXCEPT ![g] = <<>>]
    /\ gret' = [gret EXCEPT ![g] = NoRet]
    /\ UNCHANGED << npc, cl, peer, honours, exitCode, killSent, reaped, inq, inClosed,
                    outq, mu, firstLine, gforeign, closeLog >>
    /\ UNCHANGED << pollerVars, daemonVars, scriptVars >>

\* c.mu.Lock()
Lock(g) ==
    /\ gpc[g] = "lock"
    /\ CanLock(mu)
    /\ mu' = g
    /\ gpc' = [gpc EXCEPT ![g] = "send"]
    /\ closeLog' = IF gcall[g] = "Close" THEN <<>> ELSE closeLog
    /\ UNCHANGED << npc, cl, peer, honours, exitCode, killSent, reaped, inq, inClosed,
                    outq, gcall, gsent, glines, gret, firstLine, gforeign >>
    /\ UNCHANGED << pollerVars, daemonVars, scriptVars >>

\* fmt.Fprintln(c.stdin, ...): fails on a closed pipe; Close ignores that
Send(g) ==
    /\ gpc[g] = "send"
    /\ LET text == RequestLine(gcall[g])
           written == ~inClosed /\ peer # "exited"
       IN  /\ inq' = IF written THEN Append(inq, Line(text, g)) ELSE inq
           /\ gsent' = IF written THEN [gsent EXCEPT ![g] = Append(@, text)] ELSE gsent
           /\ IF gcall[g] = "Close"
              THEN /\ gpc' = [gpc EXCEPT ![g] = "close_stdin"]
                   /\ closeLog' = Append(closeLog, "EXIT")
                   /\ UNCHANGED << gret, mu >>
              ELSE /\ UNCHANGED closeLog
                   /\ IF written
                      THEN /\ gpc' = [gpc EXCEPT ![g] = "read"]
                           /\ UNCHANGED << gret, mu >>
                      ELSE /\ gpc' = [gpc EXCEPT ![g] = "idle"]
                           /\ gret' = [gret EXCEPT ![g] = Ret(TRUE, <<>>, "send", <<>>)]
                           /\ mu' = IF mu = g THEN 0 ELSE mu
    /\ UNCHANGED << npc, cl, peer, honours, exitCode, killSent, reaped, inClosed,
                    outq, gcall, glines, firstLine, gforeign >>
    /\ UNCHANGED << pollerVars, daemonVars, scriptVars >>

\* c.stdout.Scan() and what Check or UpdateClipboard does with the line
Read(g) ==
    /\ gpc[g] = "read"
    /\ outq # <<>> \/ peer = "exited"
    /\ LET eof == outq = <<>>
           lines == IF eof THEN glines[g] ELSE Append(glines[g], Head(outq).text)
           r == IF gcall[g] = "Check" THEN CheckResult(lines, eof)
                ELSE UpdateResult(lines, eof)
       IN  /\ glines' = [glines EXCEPT ![g] = lines]
           /\ outq' = IF eof THEN outq ELSE Tail(outq)
           /\ gforeign' = [gforeign EXCEPT ![g] = @ \/ (~eof /\ Head(outq).for # g)]
           /\ IF r.more
              THEN UNCHANGED << gpc, gret, mu >>
              ELSE /\ gpc' = [gpc EXCEPT ![g] = "idle"]
                   /\ gret' = [gret EXCEPT ![g] = r.ret]
                   /\ mu' = IF mu = g THEN 0 ELSE mu
    /\ UNCHANGED << npc, cl, peer, honours, exitCode, killSent, reaped, inq, inClosed,
                    gcall, gsent, firstLine, closeLog >>
    /\ UNCHANGED << pollerVars, daemonVars, scriptVars >>

\* Close: c.stdin.Close()
CloseStdin(g) ==
    /\ gpc[g] = "close_stdin"
    /\ inClosed' = TRUE
    /\ closeLog' = Append(closeLog, "close")
    /\ gpc' = [gpc EXCEPT ![g] = "wait"]
    /\ UNCHANGED << npc, cl, peer, honours, exitCode, killSent, reaped, inq, outq, mu,
                    gcall, gsent, glines, gret, firstLine, gforeign >>
    /\ UNCHANGED << pollerVars, daemonVars, scriptVars >>

\* Close: return c.cmd.Wait() (an error for a non-zero exit status and for
\* a process that was already waited on)
CloseWait(g) ==
    /\ gpc[g] = "wait"
    /\ WaitReturns(peer)
    /\ reaped' = TRUE
    /\ closeLog' = Append(closeLog, "wait")
    /\ gret' = [gret EXCEPT ![g] =
                   Ret(TRUE, <<>>, IF ~reaped /\ exitCode = 0 THEN "nil" ELSE "wait", <<>>)]
    /\ gpc' = [gpc EXCEPT ![g] = "idle"]
    /\ mu' = IF mu = g THEN 0 ELSE mu
    /\ UNCHANGED << npc, cl, peer, honours, exitCode, killSent, inq, inClosed, outq,
                    gcall, gsent, glines, firstLine, gforeign >>
    /\ UNCHANGED << pollerVars, daemonVars, scriptVars >>

ClientNext ==
    \/ NewClientStart
    \/ NewClientScan
    \/ PeerFirst
    \/ PeerServe
    \/ PeerCrash
    \/ \E g \in Callers : Call(g)
    \/ \E g \in Callers : Lock(g)
    \/ \E g \in Callers : Send(g)
    \/ \E g \in Callers : Read(g)
    \/ \E g \in Callers : CloseStdin(g)
    \/ \E g \in Callers : CloseWait(g)


(***************************************************************************)
(* internal/clipboard/clipboard.ps1: the script the Client talks to        *)
(***************************************************************************)
\* how many clipboard changes a behaviour contains
MaxChanges == 2

\* $line.Split("|")
RECURSIVE Split(_, _)
Split(s, sep) ==
    IF \A i \in 1..Len(s) : s[i] # sep THEN << s >>
    ELSE LET i == CHOOSE j \in 1..Len(s) :
                      s[j] = sep /\ \A k \in 1..(j - 1) : s[k] # sep
         IN  << SubSeq(s, 1, i - 1) >> \o Split(SubSeq(s, i + 1, Len(s)), sep)

\* $parts[i]: $null beyond the end, which a method receives as ""
Part(parts, i) == IF i + 1 <= Len(parts) THEN parts[i + 1] ELSE <<>>

\* [Console]::Out.WriteLine(text): the lines the reader of the pipe gets; a
\* line break inside the text ends a line like the one WriteLine appends
WriteLine(text) ==
    LET ls == Split(text, "\n")
        DropCR(l) ==
            IF l # <<>> /\ l[Len(l)] = "\r" THEN SubSeq(l, 1, Len(l) - 1) ELSE l
    IN  [i \in 1..Len(ls) |-> DropCR(ls[i])]

\* [Convert]::ToBase64String
RECURSIVE ToBase64String(_)
ToBase64String(b) ==
    IF b = <<>> THEN <<>>
    ELSE IF Len(b) = 1
    THEN << B64Alphabet[(b[1] \div 4) + 1], B64Alphabet[(b[1] % 4) * 16 + 1], "=", "=" >>
    ELSE IF Len(b) = 2
    THEN << B64Alphabet[(b[1] \div 4) + 1], B64Alphabet[(b[1] % 4) * 16 + (b[2] \div 16) + 1],
            B64Alphabet[(b[2] % 16) * 4 + 1], "=" >>
    ELSE << B64Alphabet[(b[1] \div 4) + 1], B64Alphabet[(b[1] % 4) * 16 + (b[2] \div 16) + 1],
            B64Alphabet[(b[2] % 16) * 4 + (b[3] \div 64) + 1], B64Alphabet[(b[3] % 64) + 1] >>
         \o ToBase64String(SubSeq(b, 4, Len(b)))

\* Clipboard.GetImage() returns $null: no image on the clipboard.  An image
\* on the clipboard is named by the bytes $img.Save(..., Png) gives for it.
NoImage == <<>>

ClipContents == Images \cup {NoImage}

\* the image file at a Windows path, NoImage when Image.FromFile throws
WinFile(path) == IF path = WinPath THEN Image(1) ELSE NoImage

\* [Console]::ReadLine() returned $null (end of input); before the first
\* ReadLine.  Neither is a text: texts are sequences of single characters.
NullLine == << "null" >>

NoLine == << "none" >>

\* the lines the script is given
Requests ==
    { CHECK, EXIT, Junk, UpdateLine(WslPath, WinPath),
      UpdateLine(WslPath, <<"C", ":", "x">>), UpdateLine(<<>>, WinPath) }

\* $_.Exception.Message, in short: of Image.FromFile for a missing file
\* (the path), of DataObject.SetText for an empty text (ArgumentNullException:
\* "Value cannot be null." + line break + "Parameter name: textData"), and of
\* Clipboard.SetDataObject when the clipboard stays locked by another process
MsgNotFound(path) == path

MsgNullArg == << "v", "\r", "\n", "p" >>

MsgBusy == << "b" >>

\* the fast path of CHECK: if ($seq -eq $lastSeq)
SeqUnchanged(seq, last) == seq = last

\* an UPDATE that leaves the watermark where it was
SeqAfterUpdate_keep(seq, last) == last

\* $lastSeq = GetClipboardSequenceNumber() after SetDataObject
SeqAfterUpdate(seq, last) == seq

ScriptInit ==
    /\ spc = "start"
    /\ reqLine = NoLine
    /\ out = <<>>
    /\ lastSeq = 0
    \* a 32-bit counter of the window station; the few changes of a
    \* behaviour do not make it wrap
    /\ clipSeq \in {0, 1}
    /\ clip \in ClipContents
    /\ changes = 0
    /\ mark = -1
    /\ imaged = {}
    /\ foreign = FALSE

\* the script is not part of the run
ScriptIdle ==
    /\ spc = "start"
    /\ reqLine = NoLine
    /\ out = <<>>
    /\ lastSeq = 0
    /\ clipSeq = 0
    /\ clip = NoImage
    /\ changes = 0
    /\ mark = -1
    /\ imaged = {}
    /\ foreign = FALSE

\* [Console]::Out.WriteLine("READY")
ScriptStart ==
    /\ spc = "start"
    /\ out' = WriteLine(READY)
    /\ spc' = "read"
    /\ UNCHANGED << reqLine, lastSeq, mark, imaged, clipSeq, clip, changes, foreign >>
    /\ UNCHANGED << pollerVars, daemonVars, clientVars >>

\* $line = [Console]::ReadLine() and the dispatch on it; a line that is no
\* command gets no answer
ReadLine(l) ==
    /\ spc = "read"
    /\ reqLine' = l
    /\ out' = <<>>
    /\ spc' = IF l = NullLine \/ l = EXIT THEN "exited"
              ELSE IF l = CHECK THEN "check_seq"
              ELSE IF HasPrefix(l, UpdatePrefix) THEN "upd_load"
              ELSE "read"
    /\ UNCHANGED << lastSeq, mark, imaged, clipSeq, clip, changes, foreign >>
    /\ UNCHANGED << pollerVars, daemonVars, clientVars >>

\* the poller's next tick: the Client sends CHECK
ReadCheck == ReadLine(CHECK)

\* CHECK: $seq = GetClipboardSequenceNumber(); if ($seq -eq $lastSeq) { NONE;
\* continue }; $lastSeq = $seq
CheckSeq ==
    /\ spc = "check_seq"
    /\ IF SeqUnchanged(clipSeq, lastSeq)
       THEN /\ out' = WriteLine(NONE)
            /\ spc' = "read"
            /\ UNCHANGED lastSeq
       ELSE /\ lastSeq' = clipSeq
            /\ spc' = "check_get"
            /\ UNCHANGED out
    /\ mark' = changes
    /\ UNCHANGED << reqLine, imaged, clipSeq, clip, changes, foreign >>
    /\ UNCHANGED << pollerVars, daemonVars, clientVars >>

\* CHECK: $img = Clipboard.GetImage(); NONE, or Save, ToBase64String and
\* IMAGE / base64 / END; catch { NONE } when GetImage or Save throws
CheckGet ==
    /\ spc = "check_get"
    /\ \/ /\ out' = WriteLine(NONE)
          /\ UNCHANGED imaged
       \/ /\ clip # NoImage
          /\ out' = WriteLine(IMAGE) \o WriteLine(ToBase64String(clip)) \o WriteLine(END)
          /\ imaged' = imaged \cup {changes}
    /\ spc' = "read"
    /\ UNCHANGED << reqLine, lastSeq, mark, clipSeq, clip, changes, foreign >>
    /\ UNCHANGED << pollerVars, daemonVars, clientVars >>

\* UPDATE: $parts = $line.Split("|"); $img = Image.FromFile($winPath)
UpdLoad ==
    /\ spc = "upd_load"
    /\ LET winPath == Part(Split(reqLine, "|"), 2) IN
       IF WinFile(winPath) = NoImage
       THEN /\ out' = WriteLine(ErrPrefix \o MsgNotFound(winPath))
            /\ spc' = "read"
       ELSE /\ spc' = "upd_set"
            /\ UNCHANGED out
    /\ UNCHANGED << reqLine, lastSeq, mark, imaged, clipSeq, clip, changes, foreign >>
    /\ UNCHANGED << pollerVars, daemonVars, clientVars >>

\* UPDATE: SetImage, SetText($wslPath), SetFileDropList, SetDataObject
UpdSet ==
    /\ spc = "upd_set"
    /\ LET parts == Split(reqLine, "|")
           wslPath == Part(parts, 1)
           winPath == Part(parts, 2)
       IN  \/ /\ wslPath = <<>>
              /\ out' = WriteLine(ErrPrefix \o MsgNullArg)
              /\ spc' = "read"
              /\ UNCHANGED << mark, clipSeq, clip, changes, foreign >>
           \/ /\ wslPath # <<>>
              /\ out' = WriteLine(ErrPrefix \o MsgBusy)
              /\ spc' = "read"
              /\ UNCHANGED << mark, clipSeq, clip, changes, foreign >>
           \/ /\ wslPath # <<>>
              /\ changes < MaxChanges
              /\ clip' = WinFile(winPath)
              /\ clipSeq' = clipSeq + 1
              /\ changes' = changes + 1
              /\ foreign' = FALSE
              /\ mark' = changes + 1
              /\ spc' = "upd_mark"
              /\ UNCHANGED out
    /\ UNCHANGED << reqLine, lastSeq, imaged >>
    /\ UNCHANGED << pollerVars, daemonVars, clientVars >>

\* UPDATE: $lastSeq = GetClipboardSequenceNumber(); OK
UpdMark ==
    /\ spc = "upd_mark"
    /\ lastSeq' = SeqAfterUpdate(clipSeq, lastSeq)
    /\ out' = WriteLine(OK)
    /\ spc' = "read"
    /\ UNCHANGED << reqLine, mark, imaged, clipSeq, clip, changes, foreign >>
    /\ UNCHANGED << pollerVars, daemonVars, clientVars >>

\* another application puts something on the clipboard
ClipChange ==
    /\ changes < MaxChanges
    /\ \E c \in ClipContents : clip' = c
    /\ clipSeq' = clipSeq + 1
    /\ changes' = changes + 1
    /\ foreign' = TRUE
    /\ UNCHANGED << spc, reqLine, out, lastSeq, mark, imaged >>
    /\ UNCHANGED << pollerVars, daemonVars, clientVars >>

ScriptSteps ==
    \/ ScriptStart
    \/ CheckSeq
    \/ CheckGet
    \/ UpdLoad
    \/ UpdSet
    \/ UpdMark

ScriptNext ==
    \/ ScriptSteps
    \/ \E l \in Requests \cup {NullLine} : ReadLine(l)
    \/ ClipChange

(***************************************************************************)
(* Specifications                                                          *)
(***************************************************************************)
InitPoller == PollerInit /\ DaemonIdle /\ ClientInit /\ ScriptIdle

SpecPoller == InitPoller /\ [][PollerNext]_vars

InitDaemon == PollerInit /\ DaemonInit /\ ClientInit /\ ScriptIdle

SpecDaemon == InitDaemon /\ [][DaemonNext]_vars

InitClient == PollerInit /\ DaemonIdle /\ ClientInit /\ ScriptIdle

SpecClient == InitClient /\ [][ClientNext]_vars

InitScript == PollerInit /\ DaemonIdle /\ ClientInit /\ ScriptInit

SpecScript == InitScript /\ [][ScriptNext]_vars

\* the script runs on whenever it can, and the poller keeps sending CHECK
SpecScriptFair ==
    /\ InitScript
    /\ [][ScriptNext]_vars
    /\ WF_vars(ScriptSteps)
    /\ SF_vars(ReadCheck)

(***************************************************************************)
(* End-to-end stop: a daemon instance whose pollFn is poller.Run, and a    *)
(* second invocation of the program running `stop`.                        *)
(***************************************************************************)
\* the process running `start`
Instance == 1

\* the process running `stop`
Stopper == 2

\* the instance has written its markers and called pollFn; nothing else runs
InitStop ==
    /\ PollerInit /\ ClientInit /\ ScriptIdle
    /\ dpc = [p \in Procs |-> IF p = Instance THEN "pollFn" ELSE "idle"]
    /\ op = [p \in Procs |-> IF p = Instance THEN "Run" ELSE "none"]
    /\ pidFile = File(Itoa(Instance))
    /\ stateFile = File(OutDir(Instance))
    /\ extProc = "none"
    /\ rpData = [p \in Procs |-> <<>>]
    /\ rpRet = [p \in Procs |-> 0]
    /\ rret = [p \in Procs |-> "none"]
    /\ pidWriter = Instance
    /\ stateWriter = Instance
    /\ wrotePid = [p \in Procs |-> p = Instance]
    /\ sigterm = {}
    /\ parent = [p \in Procs |-> 0]
    /\ interval = [p \in Procs |-> 0]
    /\ madeDir = {Instance}
    /\ envChecked = {}

\* a shell runs `wsl-screenshot-cli stop`
StartStop == Start(Stopper) /\ op'[Stopper] = "Stop"

\* signal.NotifyContext(..., syscall.SIGINT, syscall.SIGTERM): the SIGTERM
\* delivered to the instance cancels the context pollFn runs under
SigCancel == Instance \in sigterm /\ dpc[Instance] = "pollFn" /\ Cancel

\* return pollFn(ctx, logger), pollFn being poller.Run
PollFnDone ==
    /\ pc = "done"
    /\ PollFnReturns(Instance)
    /\ rret'[Instance] = result

\* the steps of poller.Run inside the instance
RunSteps ==
    \/ RunStart
    \/ SelectDone
    \/ SelectTick
    \/ PollCheck
    \/ PollSave
    \/ PollTranslate
    \/ PollUpdate
    \/ RunAfterPoll
    \/ BreakerClose
    \/ BreakerNew
    \/ DeferredClose

StopNext ==
    \/ RunSteps
    \/ Tick
    \/ StartStop
    \/ StopRead(Stopper)
    \/ StopSignal(Stopper)
    \/ SigCancel
    \/ PollFnDone
    \/ DeferState(Instance)
    \/ DeferPid(Instance)

\* Every step of the instance that can be taken is taken (the goroutine and
\* the processes are scheduled); the select, which picks at random among its
\* ready cases, does not pass over ctx.Done() for ever. Ticks and the `stop`
\* command are the environment's and need not happen.
SpecStop ==
    /\ InitStop /\ [][StopNext]_vars
    /\ WF_vars(RunSteps)
    /\ SF_vars(SelectDone)
    /\ WF_vars(StopRead(Stopper)) /\ WF_vars(StopSignal(Stopper))
    /\ WF_vars(SigCancel)
    /\ WF_vars(PollFnDone)
    /\ WF_vars(DeferState(Instance)) /\ WF_vars(DeferPid(Instance))

(***************************************************************************)
(* A run whose external process exits: poller.Run with the Check of the    *)
(* client on a session whose process is gone. The context is not cancelled.*)
(***************************************************************************)
\* a Check that takes the dead pipe for an empty clipboard
CheckOnExited_none == { Ret(TRUE, <<>>, "nil", <<>>) }

\* Client.Check on a session whose process has exited, the results it can
\* give: the write of CHECK fails on the closed pipe, or it is accepted and
\* c.stdout.Scan() returns false at once
CheckOnExited == { Ret(TRUE, <<>>, "send", <<>>), CheckResult(<<>>, TRUE).ret }

\* how poll takes what Check returned
CheckOutcome(r) ==
    IF r.err # "nil" THEN "check_err" ELSE IF r.isNil THEN "no_image" ELSE "image"

\* the powershell.exe of the active session crashes or is killed
PeerExits ==
    /\ client # NilClient
    /\ closeCount[client] = 0
    /\ pc \notin {"start", "breaker_new", "deferred_close", "done"}
    /\ ~peerExited
    /\ peerExited' = TRUE
    /\ UNCHANGED << pc, client, factoryCalls, closeCount, consecutiveErrors,
                    cancelled, tickPending, files, pngData, pollErr, retval, result,
                    updateCalls, polled, rewritten, checkStreak, trip, tripAtCheck,
                    outcome, cancelAt, factoryFailed, pollStreak, ticksSinceExit >>
    /\ UNCHANGED << daemonVars, clientVars, scriptVars >>

\* pngData, err := client.Check(), on a live or on a dead session
OutageCheck ==
    /\ PollCheck
    /\ peerExited => \E r \in CheckOnExited : outcome' = CheckOutcome(r)

\* client.UpdateClipboard(...), which fails on a dead session
OutageUpdate == PollUpdate /\ (peerExited => outcome' = "update_err")

OutageNext ==
    \/ RunStart
    \/ Tick
    \/ SelectTick
    \/ OutageCheck
    \/ PollSave
    \/ PollTranslate
    \/ OutageUpdate
    \/ RunAfterPoll
    \/ BreakerClose
    \/ BreakerNew
    \/ DeferredClose
    \/ PeerExits

InitOutage == PollerInit /\ DaemonIdle /\ ClientInit /\ ScriptIdle

SpecOutage == InitOutage /\ [][OutageNext]_vars

(***************************************************************************)
(* Properties of poller.Run (SpecPoller)                                   *)
(***************************************************************************)
PollInProgress == pc \in {"poll_check", "poll_save", "poll_translate", "poll_update"}

\* C2, as stated: once image B has been polled two or more times (and no poll
\* is in progress), the file <fingerprint(B)>.png exists and UpdateClipboard
\* was called at most once for B.
C2_DedupIdempotence_Original ==
    \A b \in Images :
        (polled[b] >= 2 /\ ~PollInProgress)
            => (Exists(files, FileName(b)) /\ updateCalls[b] <= 1)

\* C2, amended: UpdateClipboard is called at most once for B, and only with
\* <fingerprint(B)>.png holding B; the file exists as soon as one poll of B
\* has returned without error.
C2_DedupIdempotence ==
    /\ \A b \in Images :
          /\ updateCalls[b] <= 1
          /\ updateCalls[b] = 1 => files[FileName(b)] = File(b)
    /\ (pc = "after_poll" /\ ~pollErr /\ pngData # <<>>)
          => Exists(files, FileName(pngData))

C2_Witness ==
    /\ pc = "after_poll"
    /\ outcome = "dedup"
    /\ pngData = Image(1)
    /\ polled[Image(1)] = 2
    /\ updateCalls[Image(1)] = 1
    /\ files[FileName(Image(1))] = File(Image(1))

\* C3: a file of the output directory that exists is never rewritten,
\* truncated or deleted by any step of the run.
C3_AppendOnly ==
    [][\A n \in FileNames :
          Exists(files, n) => (files'[n] = files[n] /\ ~rewritten'[n])]_vars

C3_Witness ==
    /\ pc = "after_poll"
    /\ outcome = "dedup"
    /\ pngData = Image(2)
    /\ files[FileName(Image(1))] = File(Image(1))
    /\ files[FileName(Image(2))] = File(<<>>)
    /\ polled[Image(1)] = 2
    /\ polled[Image(2)] = 2

\* C4, as stated: if the context was cancelled after the initial session was
\* obtained (at the select, during a poll, or during a replacement that then
\* succeeded), Run returns nil and the session active at the cancellation
\* has had Close called exactly once.
C4_CancelReturnsNil_Original ==
    (pc = "done" /\ cancelAt.at \in {"run", "replaced"})
        => /\ result = "nil"
           /\ cancelAt.client # NilClient => closeCount[cancelAt.client] = 1

\* C5: when the fifth consecutive Check failure has happened, then by the
\* time the next Check is sent the old session was closed once, the factory
\* was called once, and the Check goes to the new session.
C5_BreakerReplacesOnce ==
    /\ tripAtCheck.armed
          => /\ tripAtCheck.closes = 1
             /\ tripAtCheck.calls = 1
             /\ tripAtCheck.sentTo # tripAtCheck.old
             /\ tripAtCheck.sentTo = tripAtCheck.newest
             /\ closeCount[tripAtCheck.old] = 1
    /\ (trip.armed /\ pc \in {"select", "poll_check"})
          => /\ trip.closes = 1
             /\ trip.calls = 1
             /\ client # trip.old
             /\ client = factoryCalls
             /\ closeCount[client] = 0

C5_Witness ==
    /\ tripAtCheck.armed
    /\ tripAtCheck.old = 1
    /\ tripAtCheck.sentTo = 2
    /\ pc = "after_poll"

\* C6, as stated: when the factory fails at a replacement, Run ends by
\* returning the error to its caller.
C6_RestartErrorReturned_Original ==
    (pc = "done" /\ factoryFailed = "restart") => result = "error"

\* C7: Run returns an error only after a factory failure; without one, Run
\* leaves its loop only once the context is cancelled, returning nil.
C7_OnlyFactoryFailureEndsRun ==
    /\ result = "error" => factoryFailed # "none"
    /\ (pc \in {"deferred_close", "done"} /\ factoryFailed = "none")
          => /\ cancelled
             /\ (IF pc = "done" THEN result ELSE retval) = "nil"

C7_Witness ==
    /\ pc = "done"
    /\ result = "nil"
    /\ factoryCalls = 2
    /\ files[FileName(Image(1))] = File(Image(1))
    /\ files[FileName(Image(2))] = File(<<>>)
    /\ updateCalls[Image(1)] = 0

(***************************************************************************)
(* Properties of internal/daemon (SpecDaemon)                              *)
(***************************************************************************)
\* C1, as stated: whatever the interleaving of Run and Daemonize invocations
\* of separate processes, at most one process is executing pollFn.
C1_AtMostOnePollFn_Original ==
    (\A p \in Procs : op[p] \in {"none", "Run", "Daemonize"})
        => Cardinality({ p \in Procs : dpc[p] = "pollFn" }) <= 1

\* C8, as stated: once a Run that wrote the PID marker has returned, neither
\* a PID marker nor a state marker written by that process is on disk.
C8_MarkersRemoved_Original ==
    \A p \in Procs :
        (dpc[p] = "exited" /\ op[p] = "Run" /\ wrotePid[p])
            => /\ ~(pidFile.there /\ pidWriter = p)
               /\ ~(stateFile.there /\ stateWriter = p)

\* C9: in a Run or Daemonize whose RunningPID finds a live instance, no step
\* changes the PID marker or the state marker or spawns a child, and the
\* step after RunningPID ends the invocation with nil (pollFn is not called,
\* no other process is started).
C9_StartWhileRunningIsNoOp ==
    [][\A p \in Procs :
          ( /\ op[p] \in {"Run", "Daemonize"}
            /\ dpc[p] \in {"rp_read", "rp_probe", "rp_ret"}
            /\ dpc'[p] # dpc[p]
            /\ dpc[p] = "rp_ret" => rpRet[p] # 0
            /\ dpc'[p] = "rp_ret" => rpRet'[p] # 0 )
          => /\ pidFile' = pidFile
             /\ stateFile' = stateFile
             /\ parent' = parent
             /\ dpc[p] = "rp_ret"
                   => /\ dpc'[p] = "exited"
                      /\ rret'[p] = "nil"
                      /\ \A q \in Procs \ {p} : dpc'[q] = dpc[q]]_vars

C9_Witness ==
    \E p, q \in Procs :
        /\ p # q
        /\ op[p] = "Daemonize"
        /\ dpc[p] = "exited"
        /\ rret[p] = "nil"
        /\ \A r \in Procs : parent[r] = 0
        /\ dpc[q] = "pollFn"
        /\ pidFile = File(Itoa(q))
        /\ stateFile = File(OutDir(q))

\* the marker text names a PID
IsPidText(data) == \E n \in Pids : TrimSpace(data) = Itoa(n)

PidNamed(data) == CHOOSE n \in Pids : TrimSpace(data) = Itoa(n)

C11_StopRemovesMarker ==
    [][\A p \in Procs :
          (op[p] = "Stop" /\ dpc[p] # "exited" /\ dpc'[p] = "exited")
             => /\ ~pidFile'.there
                /\ sigterm' # sigterm
                      => /\ dpc[p] = "stop_signal"
                         /\ IsPidText(rpData[p])
                         /\ Alive(PidNamed(rpData[p]))
                         /\ sigterm' = sigterm \cup {PidNamed(rpData[p])}
                         /\ \A q \in Procs \ {p} : dpc'[q] = dpc[q]]_vars

C11_Witness ==
    \E p, q \in Procs :
        /\ op[p] = "Stop"
        /\ dpc[p] = "exited"
        /\ rret[p] = "stopped"
        /\ sigterm = {q}
        /\ dpc[q] = "pollFn"
        /\ ~pidFile.there
        /\ stateFile = File(OutDir(q))

(***************************************************************************)
(* Properties of internal/clipboard (SpecClient)                           *)
(***************************************************************************)
\* between c.mu.Lock() and the return
InCritical(g) == gpc[g] \in {"send", "read", "close_stdin", "wait"}

\* C12: at most one caller is between Lock and return, so no request line is
\* written and no response line is read inside another caller's exchange;
\* every line waiting in the pipe answers the caller that is reading, and no
\* caller has read a line elicited by another caller's request.
C12_MutualExclusion ==
    /\ Cardinality({ g \in Callers : InCritical(g) }) <= 1
    /\ \A g \in Callers : InCritical(g) => mu = g
    /\ \A g \in Callers : ~gforeign[g]
    /\ npc = "done" =>
          \A i \in DOMAIN outq : outq[i].for \in Callers /\ gpc[outq[i].for] = "read"

C12_Witness ==
    \E g, h \in Callers :
        /\ g # h
        /\ gcall[g] = "Check"
        /\ gpc[g] = "read"
        /\ glines[g] = << IMAGE, B64Good >>
        /\ outq = << Line(END, g) >>
        /\ gcall[h] = "Update"
        /\ gpc[h] = "lock"

\* the line as it is
Literal(line) == line

\* What C13 says of a Check by g that has returned, with T applied to a line
\* before it is compared with a protocol word.
CheckAsClaimed(g, T(_)) ==
    LET L == glines[g]
        r == gret[g]
    IN  /\ gsent[g] \in { <<>>, << CHECK >> }
        /\ gsent[g] = <<>> => (L = <<>> /\ r.err = "send")
        /\ r.err # "nil" => r.isNil
        /\ gsent[g] = << CHECK >> =>
              IF L = <<>> THEN r.err = "exited"
              ELSE IF T(L[1]) = NONE THEN Len(L) = 1 /\ r.isNil /\ r.err = "nil"
              ELSE IF T(L[1]) = IMAGE
              THEN IF Len(L) = 3 /\ T(L[3]) = END /\ ~DecodeString(T(L[2])).err
                   THEN /\ r.err = "nil"
                        /\ ~r.isNil
                        /\ r.bytes = DecodeString(T(L[2])).bytes
                   ELSE r.err \in {"base64_exited", "end_exited", "expected_end", "decode"}
              ELSE Len(L) = 1 /\ r.err = "unexpected"

\* C13, as stated: the response lines are compared as they are.
C13_CheckResult_Original ==
    \A g \in Callers : (gcall[g] = "Check" /\ gret[g].done) => CheckAsClaimed(g, Literal)

\* C13, amended: Check writes one CHECK line (none and a send error if the
\* write fails) and its result is determined by the response lines with
\* surrounding whitespace trimmed: NONE, IMAGE + payload + END, errors for a
\* missing or wrong terminator, an undecodable payload, any other first line
\* and a closed channel; never bytes together with an error.
C13_CheckResult ==
    \A g \in Callers : (gcall[g] = "Check" /\ gret[g].done) => CheckAsClaimed(g, TrimSpace)

C13_Witness ==
    \E g \in Callers :
        /\ gcall[g] = "Check"
        /\ gret[g] = Ret(FALSE, << 1 >>, "nil", <<>>)
        /\ gsent[g] = << CHECK >>
        /\ glines[g] = << IMAGE, B64Good, END >>

\* What C14 says of an UpdateClipboard by g that has returned.
UpdateAsClaimed(g, T(_)) ==
    LET L == glines[g]
        r == gret[g]
    IN  /\ gsent[g] \in { <<>>, << UpdateLine(WslPath, WinPath) >> }
        /\ gsent[g] = <<>> => (L = <<>> /\ r.err = "send")
        /\ Len(L) <= 1
        /\ gsent[g] # <<>> =>
              IF L = <<>> THEN r.err = "exited"
              ELSE IF T(L[1]) = OK THEN r.err = "nil"
              ELSE IF HasPrefix(T(L[1]), ErrPrefix)
              THEN r.err = "peer" /\ ErrPrefix \o r.text = T(L[1])
              ELSE r.err = "unexpected"

\* C14, as stated: the response line is compared as it is.
C14_UpdateResult_Original ==
    \A g \in Callers : (gcall[g] = "Update" /\ gret[g].done) => UpdateAsClaimed(g, Literal)

\* C14, amended: UpdateClipboard writes one line UPDATE|<wslPath>|<winPath>
\* (none and a send error if the write fails), reads one line and decides on
\* it with surrounding whitespace trimmed: OK succeeds, ERR|<text> is an
\* error carrying <text>, anything else is an unexpected-response error; a
\* closed channel is an error.
C14_UpdateResult ==
    \A g \in Callers : (gcall[g] = "Update" /\ gret[g].done) => UpdateAsClaimed(g, TrimSpace)

C14_Witness ==
    \E g \in Callers :
        /\ gcall[g] = "Update"
        /\ gret[g] = Ret(TRUE, <<>>, "peer", <<"m">>)
        /\ gsent[g] = << UpdateLine(WslPath, WinPath) >>
        /\ glines[g] = << ErrPrefix \o <<"m">> >>

\* What C15 says of a NewClient that has returned after spawning a process.
NewClientAsClaimed(T(_)) ==
    (npc = "done" /\ peer # "none")
       => /\ cl = "client" <=> (firstLine.got /\ T(firstLine.text) = READY)
          /\ cl # "client" => (cl = "error" /\ killSent /\ reaped /\ peer = "exited")

\* C15, as stated: the first line is compared as it is.
C15_Handshake_Original == NewClientAsClaimed(Literal)

\* C15, amended: NewClient returns a Client exactly if the first line of the
\* process, with surrounding whitespace trimmed, is READY; otherwise it
\* returns an error and no Client after Kill and Wait.
C15_Handshake == NewClientAsClaimed(TrimSpace)

C15_Witness ==
    /\ npc = "done"
    /\ cl = "error"
    /\ firstLine = [got |-> TRUE, text |-> NONE]
    /\ killSent
    /\ reaped
    /\ peer = "exited"

\* C16: Close does EXIT, close of stdin, Wait in this order; it returns only
\* when the process has exited; if the process exited with status 0 on EXIT
\* (and was not waited on before), Close returns nil.
C16_CloseOrder ==
    [][/\ closeLog' \in { <<>>, <<"EXIT">>, <<"EXIT", "close">>, <<"EXIT", "close", "wait">> }
       /\ \A g \in Callers :
             (gcall[g] = "Close" /\ gpc[g] # "idle" /\ gpc'[g] = "idle")
                => /\ peer = "exited"
                   /\ peer' = "exited"
                   /\ inClosed
                   /\ closeLog' = <<"EXIT", "close", "wait">>
                   /\ (honours /\ exitCode = 0 /\ ~reaped) => gret'[g].err = "nil"
                   /\ gret'[g].err = "nil" => exitCode = 0]_vars

C16_Witness ==
    \E g \in Callers :
        /\ gcall[g] = "Close"
        /\ gret[g] = Ret(TRUE, <<>>, "nil", <<>>)
        /\ gsent[g] = << EXIT >>
        /\ closeLog = <<"EXIT", "close", "wait">>
        /\ honours
        /\ exitCode = 0

(***************************************************************************)
(* Further properties of poller.Run (SpecPoller)                           *)
(***************************************************************************)
\* C17: the only step into a state where the first factory call has failed
\* is the start of Run, and it ends the run with the error: nothing can
\* follow it, no session exists, and no Check, UpdateClipboard or Close was
\* or will be called.
C17_StartFailureIsFinal ==
    [][factoryFailed' = "start"
          => /\ pc = "start"
             /\ pc' = "done"
             /\ result' = "error"
             /\ client' = NilClient
             /\ factoryCalls' = 0
             /\ \A sn \in Sessions : closeCount'[sn] = 0
             /\ \A b \in Images : updateCalls'[b] = 0 /\ polled'[b] = 0
             /\ checkStreak' = 0
             /\ tripAtCheck' = NoTrip
             /\ outcome' = "none"]_vars

C17_Witness ==
    /\ factoryFailed = "start"
    /\ pc = "done"
    /\ result = "error"
    /\ cancelAt.at = "start"

\* C18: the step of poll in which Check reports no image changes no file,
\* ends the poll (no translation, no UpdateClipboard) and makes poll return
\* no error.
C18_NoImageChangesNothing ==
    [][(pc = "poll_check" /\ outcome' = "no_image")
          => /\ files' = files
             /\ rewritten' = rewritten
             /\ updateCalls' = updateCalls
             /\ pc' = "after_poll"
             /\ ~pollErr'
             /\ pngData' = <<>>]_vars

C18_Witness ==
    /\ pc = "after_poll"
    /\ outcome = "no_image"
    /\ ~pollErr
    /\ files[FileName(Image(1))] = File(Image(1))
    /\ ~Exists(files, FileName(Image(2)))
    /\ updateCalls[Image(1)] = 1

\* C19: when translation fails for an image poll has just written, the file
\* holds the image bytes, UpdateClipboard is not called and poll returns no
\* error.
C19_TranslateFailure ==
    [][(pc = "poll_translate" /\ outcome' = "translate_err")
          => /\ files[FileName(pngData)] = File(pngData)
             /\ files' = files
             /\ updateCalls' = updateCalls
             /\ pc' = "after_poll"
             /\ ~pollErr']_vars

C19_Witness ==
    /\ pc = "after_poll"
    /\ outcome = "translate_err"
    /\ pngData = Image(1)
    /\ files[FileName(Image(1))] = File(Image(1))
    /\ updateCalls[Image(1)] = 0
    /\ ~pollErr

\* C20: when UpdateClipboard fails for an image poll has just written, the
\* file stays, poll returns no error, and Run resets the consecutive-failure
\* counter.
C20_UpdateFailure ==
    [][/\ (pc = "poll_update" /\ outcome' = "update_err")
             => /\ files[FileName(pngData)] = File(pngData)
                /\ files' = files
                /\ pc' = "after_poll"
                /\ ~pollErr'
       /\ (pc = "after_poll" /\ outcome = "update_err" /\ pc' # pc)
             => /\ consecutiveErrors' = 0
                /\ pc' = "select"
                /\ files' = files]_vars

C20_Witness ==
    /\ pc = "after_poll"
    /\ outcome = "update_err"
    /\ pngData = Image(1)
    /\ files[FileName(Image(1))] = File(Image(1))
    /\ consecutiveErrors = 4
    /\ ~pollErr

(***************************************************************************)
(* C21: the consecutive-failure counter is incremented on a tick if and    *)
(* only if Check itself returned an error on that tick; no later step of   *)
(* the capture pipeline (fingerprint, presence check, file write, path     *)
(* translation, clipboard update) counts toward the circuit breaker.       *)
(* As claimed. poll returns the error of os.WriteFile, and Run counts it.  *)
(***************************************************************************)
C21_OnlyCheckErrorsCount_Original ==
    [][(pc = "after_poll" /\ pc' # "after_poll")
         => ((consecutiveErrors' = consecutiveErrors + 1) <=> (outcome = "check_err"))]_vars

(***************************************************************************)
(* C22: a poll that gets an image B whose file is absent and completes     *)
(* creates <lowercase hex digest of B>.png holding exactly B and calls     *)
(* UpdateClipboard once, for that file; different images have different    *)
(* file names, so each ends up in its own file with its own bytes.         *)
(***************************************************************************)
LowerHex == {"0","1","2","3","4","5","6","7","8","9","a","b","c","d","e","f"}

C22_NewImageSaved ==
    /\ \A b1, b2 \in Images : b1 # b2 => FileName(b1) # FileName(b2)
    /\ \A b \in Images :
          /\ \A i \in 1..Len(hashBytes(b)) : hashBytes(b)[i] \in LowerHex
          /\ FileName(b) = hashBytes(b) \o <<".", "p", "n", "g">>
    /\ [][\* the save of an absent file that succeeds
       /\ (pc = "poll_save" /\ ~Exists(files, FileName(pngData)) /\ outcome' = "saved")
            => /\ files' = [files EXCEPT ![FileName(pngData)] = File(pngData)]
               /\ pc' = "poll_translate"
       \* UpdateClipboard is called by the poll that saved the file, once
       /\ updateCalls' # updateCalls
            => /\ pc = "poll_update" /\ pc' = "after_poll" /\ outcome = "saved"
               /\ files[FileName(pngData)] = File(pngData)
               /\ updateCalls' = [updateCalls EXCEPT ![pngData] = @ + 1]
       \* the poll that saved and translated goes on to the update
       /\ (pc = "poll_translate" /\ pc' # pc /\ outcome' = "saved") => pc' = "poll_update"
       \* whatever was announced is on disk, whole
       /\ \A b \in Images : updateCalls[b] > 0 => files[FileName(b)] = File(b)
      ]_vars

C22_Witness ==
    /\ pc = "after_poll" /\ outcome = "updated"
    /\ \A b \in Images : files[FileName(b)] = File(b) /\ updateCalls[b] = 1
    /\ Cardinality(FileNames) = NumImages /\ NumImages >= 2

(***************************************************************************)
(* C23: once the context is cancelled Run takes no further tick, also      *)
(* when a tick is pending as the cancellation is observed: from the select *)
(* of a cancelled run no Check is issued.                                  *)
(* As claimed. The select has no priority among its cases: with both       *)
(* ctx.Done() and ticker.C ready it may take the tick and call Check.      *)
(***************************************************************************)
C23_NoTickAfterCancel_Original ==
    [][(cancelled /\ pc = "select") => pc' # "poll_check"]_vars

(***************************************************************************)
(* C24: at every moment of a Run at most one session is active (obtained   *)
(* from the factory and not yet closed); when the circuit breaker asks the *)
(* factory for the new session, Close of the old one has returned.         *)
(***************************************************************************)
ActiveSessions == { s \in 1..factoryCalls : closeCount[s] = 0 }

C24_OneActiveSession ==
    /\ Cardinality(ActiveSessions) <= 1
    /\ ActiveSessions \subseteq {client}
    /\ pc = "breaker_new" => (client # NilClient /\ closeCount[client] >= 1)

C24_Witness ==
    /\ factoryCalls = 2 /\ client = 2 /\ pc = "poll_check"
    /\ closeCount[1] = 1 /\ ActiveSessions = {2}

(***************************************************************************)
(* C25: when no instance is running, Daemonize starts exactly one detached *)
(* child and returns success once it is started, creating no marker; when  *)
(* the launch fails it returns an error and leaves the markers unchanged.  *)
(* As claimed, for a Daemonize that runs alone over the markers an earlier *)
(* instance left behind and fails to launch: the PID marker is still       *)
(* there. It is not: RunningPID, which Daemonize calls first, removed it.  *)
(***************************************************************************)
C25_DaemonizeFrame_Original ==
    \A p \in Procs :
        (/\ op[p] = "Daemonize" /\ dpc[p] = "exited" /\ rret[p] = "error"
         /\ \A q \in Procs \ {p} : dpc[q] = "idle"
         /\ stateFile = File(OldDir))
            => pidFile = File(Itoa(StalePid))

\* C25, amended: Daemonize never writes a marker and never touches the state
\* marker; the one change it makes is the removal, by the RunningPID it calls
\* first, of a PID marker that names no live process, whether or not the
\* launch then succeeds. It launches only when RunningPID returned 0, returns
\* nil exactly when one child (running `start`) was started, and an error
\* when none was.
C25_DaemonizeFrame ==
    [][\A p \in Procs :
          (op[p] = "Daemonize" /\ dpc'[p] # dpc[p])
             => /\ stateFile' = stateFile
                /\ wrotePid'[p] = wrotePid[p]
                /\ pidFile' # pidFile
                     => /\ dpc[p] = "rp_probe"
                        /\ pidFile' = NoFile
                        /\ ~(IsPidText(rpData[p]) /\ PidNamed(rpData[p]) \in AlivePids)
                /\ dpc'[p] = "dz_spawn" => rpRet[p] = 0
                /\ dpc[p] = "dz_spawn"
                     => LET started == { q \in Procs \ {p} : dpc'[q] # dpc[q] } IN
                        /\ dpc'[p] = "exited"
                        /\ rret'[p] \in {"nil", "error"}
                        /\ rret'[p] = "nil"
                             => /\ Cardinality(started) = 1
                                /\ \A q \in started :
                                      /\ dpc[q] = "idle" /\ dpc'[q] = "cmd_start"
                                      /\ op'[q] = "Run" /\ parent'[q] = p
                        /\ rret'[p] = "error" => started = {}
      ]_vars

C25_Witness ==
    \E p \in Procs :
        /\ op[p] = "Daemonize" /\ dpc[p] = "exited" /\ rret[p] = "error"
        /\ \A q \in Procs \ {p} : dpc[q] = "idle"
        /\ stateFile = File(OldDir) /\ pidFile = NoFile

(***************************************************************************)
(* C26: the start command rejects every interval outside 100..5000 ms with *)
(* an error before any side effect (no output directory created, no        *)
(* environment check, no child, no marker written, pollFn not invoked),    *)
(* and every interval inside the range passes the check.                   *)
(***************************************************************************)
C26_IntervalChecked ==
    [][/\ \A p \in Procs :
             (dpc[p] = "cmd_start" /\ dpc'[p] # dpc[p])
                => IF interval[p] \notin MinInterval..MaxInterval
                   THEN /\ dpc'[p] = "exited" /\ rret'[p] = "interval"
                        /\ UNCHANGED << madeDir, envChecked, pidFile, stateFile,
                                        pidWriter, stateWriter, wrotePid, parent,
                                        sigterm >>
                        /\ \A q \in Procs \ {p} : dpc'[q] = dpc[q]
                   ELSE /\ rret'[p] # "interval"
                        /\ p \in madeDir' \/ rret'[p] = "mkdir"
       /\ \A p \in Procs :
             rret[p] = "interval"
                => /\ p \notin madeDir /\ p \notin envChecked /\ ~wrotePid[p]
                   /\ \A q \in Procs : parent[q] # p
      ]_vars

C26_Witness ==
    \E p, q \in Procs :
        /\ dpc[p] = "exited" /\ rret[p] = "interval" /\ p \notin madeDir
        /\ dpc[q] = "pollFn" /\ q \in madeDir /\ parent[q] = 0

(***************************************************************************)
(* C27: the consecutive-failure counter is between 0 and 4 whenever a tick *)
(* starts; every successful poll and every successful replacement resets   *)
(* it to 0; the session is replaced only after five failed polls with no   *)
(* successful poll in between (the counter is the number of polls that     *)
(* failed since the last success or replacement).                          *)
(***************************************************************************)
C27_CounterRange ==
    [][/\ consecutiveErrors = pollStreak
       /\ pc \in {"select", "poll_check", "poll_save", "poll_translate", "poll_update",
                  "after_poll"}
            => consecutiveErrors \in 0..(maxConsecutiveErrors - 1)
       /\ pc \in {"breaker_close", "breaker_new"} => pollStreak = maxConsecutiveErrors
       /\ (pc = "after_poll" /\ pc' # pc /\ ~pollErr) => consecutiveErrors' = 0
       /\ (pc = "breaker_new" /\ pc' = "select") => consecutiveErrors' = 0
       \* only the breaker replaces, and only at the threshold
       /\ (factoryCalls' # factoryCalls /\ pc # "start")
            => (pc = "breaker_new" /\ pollStreak = maxConsecutiveErrors)
       /\ (closeCount' # closeCount /\ pc # "deferred_close")
            => (pc = "breaker_close" /\ pollStreak = maxConsecutiveErrors)
      ]_vars

C27_Witness ==
    /\ pc = "after_poll" /\ ~pollErr
    /\ consecutiveErrors = maxConsecutiveErrors - 1
    /\ factoryCalls = 1 /\ closeCount[1] = 0

(***************************************************************************)
(* C28: polls never overlap and shutdown never interrupts an exchange: at  *)
(* most one Check/UpdateClipboard exchange is in flight, a tick is taken   *)
(* only once the previous poll has returned, and Close is called on a      *)
(* session only when no exchange on it awaits its response.                *)
(***************************************************************************)
PollSteps == {"poll_check", "poll_save", "poll_translate", "poll_update"}

\* Run is inside client.Check() or client.UpdateClipboard()
InFlight == pc \in {"poll_check", "poll_update"}

C28_NoOverlap ==
    [][\* an exchange runs on the one open session
       /\ InFlight => (client # NilClient /\ closeCount[client] = 0)
       \* a poll, once begun, runs to its return; nothing else happens meanwhile
       /\ (pc \in PollSteps /\ pc' # pc) => pc' \in PollSteps \cup {"after_poll"}
       /\ pc \in PollSteps
            => UNCHANGED << client, factoryCalls, closeCount, consecutiveErrors,
                            retval, result >>
       \* a tick is considered only at the select, after the poll before it
       /\ (pc' = "poll_check" /\ pc # "poll_check")
            => (pc = "select" /\ tickPending /\ ~tickPending' /\ pngData = <<>>)
       \* Close is called between polls only
       /\ closeCount' # closeCount
            => (~InFlight /\ pc \in {"breaker_close", "deferred_close"})
      ]_vars

C28_Witness ==
    /\ cancelled /\ cancelAt.at = "run"
    /\ pc = "after_poll" /\ outcome = "updated"
    /\ client # NilClient /\ closeCount[client] = 0 /\ result = "none"

(***************************************************************************)
(* C29: when Stop has delivered SIGTERM to the live instance, the instance *)
(* eventually has its context cancelled, its session closed, has returned  *)
(* from daemon.Run (its pollFn returned, not panicked) and has exited.     *)
(* As claimed. It exits, but not always by returning: a run that is        *)
(* stopped while its circuit breaker fails to get a new session panics in  *)
(* the deferred Close.                                                     *)
(***************************************************************************)
C29_StopEndsInstance_Original ==
    (Instance \in sigterm)
        ~> (/\ dpc[Instance] = "exited"
            /\ rret[Instance] \in {"nil", "error"}
            /\ ActiveSessions = {})

(***************************************************************************)
(* C30: once the external process of the active session has exited, every  *)
(* following Check on that session returns an error (it does not block and *)
(* returns neither NONE nor an image), so that a Run that is not cancelled  *)
(* trips its circuit breaker on that session at the fifth tick after the   *)
(* exit at the latest.                                                     *)
(***************************************************************************)
C30_ExitDetected ==
    [][\* the Check of a dead session returns, with an error
       /\ (peerExited /\ pc = "poll_check" /\ pc' # pc)
            => (pc' = "after_poll" /\ pollErr' /\ outcome' = "check_err")
       /\ (peerExited /\ pc = "poll_check") => ENABLED OutageCheck
       \* no sixth tick is spent on it
       /\ ticksSinceExit <= maxConsecutiveErrors
       /\ (peerExited /\ ticksSinceExit = maxConsecutiveErrors /\ pc = "after_poll"
             /\ pc' # pc)
            => pc' = "breaker_close"
       /\ (peerExited /\ ticksSinceExit = maxConsecutiveErrors)
            => pc \in {"poll_check", "after_poll", "breaker_close", "breaker_new",
                       "deferred_close", "done"}
       \* the dead session is the one the breaker closes, and it is not used again
       /\ (peerExited /\ pc = "breaker_close" /\ pc' # pc)
            => (closeCount'[client] = 1 /\ pc' = "breaker_new")
       /\ (peerExited /\ ~peerExited') => (client' # client /\ closeCount[client] = 1)
      ]_vars

C30_Witness ==
    /\ peerExited /\ ticksSinceExit = maxConsecutiveErrors
    /\ pc = "breaker_close" /\ ~cancelled
    /\ polled # [b \in Images |-> 0]


(***************************************************************************)
(* C36, as stated: on every exit path of poller.Run each session the       *)
(* factory produced has had Close called exactly once by the time Run      *)
(* returns (never more than once before), and no operation is invoked on   *)
(* the session value of a failed factory call.  The deferred Close of a    *)
(* Run whose replacement factory failed is invoked on that nil value.      *)
(***************************************************************************)
C36_NoLeakNoStrayCall_Original ==
    /\ \A s \in 1..factoryCalls : closeCount[s] <= 1
    /\ pc = "done"
          => /\ \A s \in 1..factoryCalls : closeCount[s] = 1
             /\ result # "panic"

(***************************************************************************)
(* C37, as stated: every file <h>.png that is present in the output        *)
(* directory holds exactly the bytes whose fingerprint is h.  A write that *)
(* failed part-way leaves a shorter file under that name.                  *)
(***************************************************************************)
C37_ArtifactIntegrity_Original ==
    \A b \in Images :
        Exists(files, FileName(b)) => files[FileName(b)] = File(b)


(***************************************************************************)
(* internal/daemon: readOutputDir                                          *)
(***************************************************************************)
DefaultOutputDir ==
    << "/", "t", "m", "p", "/", ".", "w", "s", "l", "-", "s", "c", "r", "e", "e",
       "n", "s", "h", "o", "t", "-", "c", "l", "i", "/" >>

\* readOutputDir: os.ReadFile(StateFile) fails -> DefaultOutputDir; the
\* trimmed content, or DefaultOutputDir when nothing is left of it
readOutputDir(f) ==
    IF ~f.there THEN DefaultOutputDir
    ELSE LET dir == TrimSpace(f.data) IN
         IF dir = <<>> THEN DefaultOutputDir ELSE dir

(***************************************************************************)
(* C33, as stated: while an instance started by Run with a non-blank       *)
(* outputDir is executing pollFn, readOutputDir returns that outputDir;    *)
(* whenever the state marker is missing or holds only whitespace,          *)
(* readOutputDir returns DefaultOutputDir.  The first half fails when a    *)
(* second instance has written or removed the state marker meanwhile.      *)
(***************************************************************************)
C33_StateMarkerRoundTrip_Original ==
    /\ \A p \in Procs :
          (dpc[p] = "pollFn" /\ op[p] = "Run" /\ TrimSpace(OutDir(p)) # <<>>)
              => readOutputDir(stateFile) = OutDir(p)
    /\ (~stateFile.there \/ TrimSpace(stateFile.data) = <<>>)
          => readOutputDir(stateFile) = DefaultOutputDir

(***************************************************************************)
(* C34, as stated: the exit cleanup of Run (its two deferred os.Remove)    *)
(* never deletes a PID marker or a state marker that was written by a      *)
(* different instance that is still running.                               *)
(***************************************************************************)
C34_RemovesOnlyOwnMarkers_Original ==
    [][\A p \in Procs :
          /\ (dpc[p] = "defer_state" /\ dpc'[p] # dpc[p] /\ stateFile.there)
                => ~(stateWriter \in Procs \ {p} /\ dpc[stateWriter] = "pollFn")
          /\ (dpc[p] = "defer_pid" /\ dpc'[p] # dpc[p] /\ pidFile.there)
                => ~(pidWriter \in Procs \ {p} /\ dpc[pidWriter] = "pollFn")]_vars

(***************************************************************************)
(* C35, as stated: whenever a process is executing pollFn inside Run, the  *)
(* PID marker exists and holds that process's PID (so RunningPID called    *)
(* from another process returns it).                                       *)
(***************************************************************************)
C35_PidMarkerWhileRunning_Original ==
    \A p \in Procs :
        (dpc[p] = "pollFn" /\ op[p] = "Run")
            => /\ pidFile = File(Itoa(p))
               /\ RunningPIDResult(pidFile.data, AlivePids).ret = p


(***************************************************************************)
(* C39: the marker is judged by the probe of the PID alone.  As claimed:   *)
(* when the PID marker left by an instance that died without cleanup names *)
(* a PID now held by any live process that is not of this program,         *)
(* RunningPID returns that PID and keeps the marker; a Run or Daemonize    *)
(* that got it returns nil at once, changing no marker and starting        *)
(* nothing; Stop delivers SIGTERM to that process.                         *)
(***************************************************************************)
PidReuseAsClaimed(held) ==
    \A p \in Procs :
          /\ (/\ dpc[p] = "rp_probe" /\ dpc'[p] # dpc[p]
              /\ rpData[p] = Itoa(StalePid) /\ held)
                => /\ rpRet'[p] = StalePid
                   /\ pidFile' = pidFile
          /\ (/\ dpc[p] = "rp_ret" /\ dpc'[p] # dpc[p]
              /\ rpRet[p] = StalePid /\ op[p] \in {"Run", "Daemonize"})
                => /\ dpc'[p] = "exited"
                   /\ rret'[p] = "nil"
                   /\ pidFile' = pidFile /\ stateFile' = stateFile
                   /\ wrotePid' = wrotePid
                   /\ \A q \in Procs \ {p} : dpc'[q] = dpc[q]
          /\ (/\ dpc[p] = "stop_signal" /\ dpc'[p] # dpc[p]
              /\ rpData[p] = Itoa(StalePid) /\ held)
                => /\ StalePid \in sigterm'
                   /\ rret'[p] = "stopped"

C39_PidReuse_Original == [][PidReuseAsClaimed(extProc # "none")]_vars

\* C39, amended: this holds when the live process holding the PID is one
\* this user may signal.  A live process of another user makes the probe
\* fail like a dead one: RunningPID removes the marker and returns 0, and
\* Stop delivers nothing, removes the marker and reports a stale marker.
C39_PidReuse ==
    [][/\ PidReuseAsClaimed(extProc = "own")
       /\ \A p \in Procs :
             /\ (/\ dpc[p] = "rp_probe" /\ dpc'[p] # dpc[p]
                 /\ rpData[p] = Itoa(StalePid) /\ extProc = "other")
                   => /\ rpRet'[p] = 0
                      /\ ~pidFile'.there
             /\ (/\ dpc[p] = "stop_signal" /\ dpc'[p] # dpc[p]
                 /\ rpData[p] = Itoa(StalePid) /\ extProc = "other")
                   => /\ sigterm' = sigterm
                      /\ rret'[p] = "stale"
                      /\ ~pidFile'.there]_vars

C39_Witness ==
    /\ extProc = "own"
    /\ StalePid \in sigterm
    /\ \E p \in Procs : op[p] = "Stop" /\ dpc[p] = "exited" /\ rret[p] = "stopped"
    /\ \E p \in Procs :
          /\ op[p] \in {"Run", "Daemonize"} /\ dpc[p] = "exited"
          /\ rret[p] = "nil" /\ ~wrotePid[p]


(***************************************************************************)
(* Properties of clipboard.ps1 (SpecScript)                                *)
(***************************************************************************)
\* C31: the script answers CHECK with IMAGE only when the sequence number it
\* read differs from the watermark $lastSeq; the watermark changes only in a
\* CHECK that sees a difference and in a successful UPDATE, and each of them
\* sets it to the current sequence number; so a CHECK that reads the
\* sequence number with no clipboard change since the previous CHECK read
\* it, or since the write of a successful UPDATE, answers NONE at once.
C31_Watermark ==
    [][/\ (out' # out /\ out' # <<>> /\ out'[1] = IMAGE)
             => /\ spc = "check_get"
                /\ reqLine = CHECK
                /\ lastSeq = clipSeq \/ mark # changes
       /\ (spc = "check_seq" /\ spc' = "check_get") => clipSeq # lastSeq
       /\ (spc = "check_seq" /\ spc' # spc /\ clipSeq # lastSeq)
             => lastSeq' = clipSeq
       /\ (spc = "upd_mark" /\ spc' # spc)
             => (lastSeq' = clipSeq /\ out' = << OK >>)
       /\ lastSeq' # lastSeq => spc \in {"check_seq", "upd_mark"}
       /\ (spc = "check_seq" /\ spc' # spc /\ mark = changes)
             => /\ out' = << NONE >>
                /\ spc' = "read"
                /\ lastSeq' = lastSeq]_vars

\* a CHECK right after a successful UPDATE, the clipboard holding the image
\* the UPDATE wrote and nothing else having changed it, was answered NONE
C31_Witness ==
    /\ spc = "read"
    /\ reqLine = CHECK
    /\ out = << NONE >>
    /\ changes = 1
    /\ ~foreign
    /\ clip = Image(1)
    /\ mark = changes
    /\ lastSeq = clipSeq
    /\ imaged = {}


C38_NoLostScreenshot_Original ==
    \A k \in 1..MaxChanges :
        (changes = k /\ foreign /\ clip # NoImage)
            ~> (changes # k \/ k \in imaged \/ spc = "exited")
====
